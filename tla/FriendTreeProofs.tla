-------------------------- MODULE FriendTreeProofs --------------------------
(***************************************************************************)
(* Theorems about FriendTree, for any number of processes, any command     *)
(* file and any size of the answer buffer.                                 *)
(***************************************************************************)
EXTENDS FriendTree, SequenceTheorems, TLAPS

-----------------------------------------------------------------------------
(* Types, and what a process has when it is somewhere in its main.         *)

Working(p) ==
  /\ pc[p] \in {"ask", "listen"} => cmd[p] \in 1..Len(input)
  /\ pc[p] = "listen" => pNode[p] \in 1..Len(pList[p])
  /\ pc[p] = "start" => stdin[p] # << >>
  /\ pc[p] = None => p # Root /\ pList[p] = << >> /\ stdin[p] = << >> /\ cmd[p] = 0

\* The children of p have been forked, and each is the child of one process.
Forked(p) ==
  \A i \in 1..Len(pList[p]) :
    pList[p][i] # Root /\ pList[p][i] # p /\ pc[pList[p][i]] # None

OneParent(p, r) ==
  \A i \in 1..Len(pList[p]), j \in 1..Len(pList[r]) :
    pList[p][i] = pList[r][j] => p = r /\ i = j

TInv ==
  /\ TypeOK
  /\ \A p \in Process : Working(p) /\ Forked(p)
  /\ \A p, r \in Process : OneParent(p, r)

\* The commands are commands.
LEMMA InputIsCommands ==
  ASSUME input \in Inputs
  PROVE  input \in Seq(Command) /\ Len(input) \in Nat /\ \A k \in 1..Len(input) : input[k] \in Command
<1>1. input \in Seq(Command)
  BY InputAssumption
<1> QED BY <1>1, LenProperties, ElementOfSeq

\* A name is a few bytes.
LEMMA NamesAreBytes ==
  ASSUME NEW n \in Name
  PROVE  n \in Seq(Byte) /\ n # << >>
<1>1. n \in Seq(Letter) /\ Len(n) \in 1..(MAX_FRIEND_NAME_LEN - 1)
  BY NameAssumption
<1>2. Len(n) \in Nat /\ n \in [1..Len(n) -> Letter]
  BY <1>1, LenProperties
<1>3. n \in [1..Len(n) -> Byte]
  BY <1>2 DEF Byte
<1>4. n \in Seq(Byte)
  BY <1>2, <1>3, SeqDef
<1>5. n # << >>
  BY <1>1, EmptySeq
<1> QED BY <1>4, <1>5

\* The root is a process.
LEMMA RootIsProcess == Root \in Process
BY SizeAssumption DEF Root, Process

\* Initially the tree is the root alone.
LEMMA InitTypes == Init => TInv
<1> SUFFICES ASSUME Init PROVE TInv
  OBVIOUS
<1>1. Len(input) \in Nat
  BY InputIsCommands DEF Init
<1>2. [k \in 1..Len(input) |-> k] \in Seq(1..Len(input))
  BY <1>1
<1>3. << >> \in Seq(1..Len(input)) /\ << >> \in Seq(Process) /\ << >> \in Seq(Byte)
  OBVIOUS
<1>4. TypeOK
  <2>1. pc \in [Process -> PC] /\ name \in [Process -> Name]
    BY NameAssumption DEF Init, PC
  <2>2. stdin \in [Process -> Seq(1..Len(input))]
    BY <1>2, <1>3, Zenon DEF Init
  <2>3. /\ pList \in [Process -> Seq(Process)]
        /\ stdout \in [Process -> Seq(Byte)] /\ middle \in [Process -> Seq(Byte)]
    BY <1>3, Zenon DEF Init
  <2>4. /\ cmd \in [Process -> 0..Len(input)] /\ made \in [Process -> 0..Len(input)]
        /\ pNode \in [Process -> Nat \ {0}]
    BY <1>1 DEF Init
  <2> QED BY <2>1, <2>2, <2>3, <2>4 DEF Init, TypeOK
<1>5. ASSUME NEW p \in Process
      PROVE  Working(p) /\ Forked(p)
  BY <1>5, EmptySeq DEF Init, Working, Forked, None
<1>6. \A p, r \in Process : OneParent(p, r)
  BY EmptySeq DEF Init, OneParent
<1> QED BY <1>4, <1>5, <1>6 DEF TInv

\* What the invariant says of one process.
LEMMA NowOne ==
  ASSUME TInv, NEW p \in Process
  PROVE  /\ pc[p] \in PC /\ name[p] \in Name
         /\ pList[p] \in Seq(Process) /\ Len(pList[p]) \in Nat
         /\ \A i \in 1..Len(pList[p]) : pList[p][i] \in Process
         /\ stdin[p] \in Seq(1..Len(input)) /\ Len(stdin[p]) \in Nat
         /\ \A i \in 1..Len(stdin[p]) : stdin[p][i] \in 1..Len(input)
         /\ stdout[p] \in Seq(Byte) /\ Len(stdout[p]) \in Nat
         /\ middle[p] \in Seq(Byte) /\ Len(middle[p]) \in Nat
         /\ cmd[p] \in 0..Len(input) /\ pNode[p] \in Nat \ {0}
         /\ made[p] \in 0..Len(input)
         /\ Len(input) \in Nat
         /\ Working(p) /\ Forked(p) /\ \A r \in Process : OneParent(p, r)
<1>1. /\ pc[p] \in PC /\ name[p] \in Name
      /\ pList[p] \in Seq(Process) /\ stdin[p] \in Seq(1..Len(input))
      /\ stdout[p] \in Seq(Byte) /\ middle[p] \in Seq(Byte)
      /\ cmd[p] \in 0..Len(input) /\ pNode[p] \in Nat \ {0} /\ made[p] \in 0..Len(input)
      /\ Working(p) /\ Forked(p) /\ \A r \in Process : OneParent(p, r)
  BY DEF TInv, TypeOK
<1>2. Len(input) \in Nat
  BY InputIsCommands DEF TInv, TypeOK
<1> QED BY <1>1, <1>2, LenProperties, ElementOfSeq

\* What read() takes and leaves, and what the buffer holds then.
LEMMA Reading ==
  ASSUME NEW S, NEW bytes \in Seq(S), NEW old \in Seq(S), bytes # << >>
  PROVE  /\ Taken(bytes) \in Seq(S) /\ LeftIn(bytes) \in Seq(S)
         /\ Over(Taken(bytes), old) \in Seq(S)
         /\ Over(Taken(bytes), old) # << >>
<1>1. Len(bytes) \in Nat /\ Len(old) \in Nat /\ Len(bytes) > 0
  BY LenProperties, EmptySeq
<1>2. /\ \A i \in 1..Len(bytes) : bytes[i] \in S
      /\ \A i \in 1..Len(old) : old[i] \in S
  BY ElementOfSeq
<1>3. Taken(bytes) \in Seq(S) /\ Len(Taken(bytes)) > 0 /\ Len(Taken(bytes)) \in Nat
  <2>1. CASE Len(bytes) <= MAX_FRIEND_NAME_LEN
    BY <1>1, <2>1 DEF Taken
  <2>2. CASE ~(Len(bytes) <= MAX_FRIEND_NAME_LEN)
    <3>1. MAX_FRIEND_NAME_LEN \in Int /\ 1 <= MAX_FRIEND_NAME_LEN
      BY SizeAssumption
    <3>2. \A i \in 1..MAX_FRIEND_NAME_LEN : bytes[i] \in S
      BY <1>1, <1>2, <2>2, <3>1
    <3> QED BY <2>2, <3>1, <3>2, SubSeqProperties DEF Taken
  <2> QED BY <2>1, <2>2
<1>4. LeftIn(bytes) \in Seq(S)
  <2>1. \A i \in Len(Taken(bytes)) + 1..Len(bytes) : bytes[i] \in S
    BY <1>1, <1>2, <1>3
  <2> QED BY <1>1, <1>3, <2>1, SubSeqProperties DEF LeftIn
<1> DEFINE new == Taken(bytes)
<1> HIDE DEF new
<1>5. Over(new, old) \in Seq(S) /\ Over(new, old) # << >>
  <2>1. new \in Seq(S) /\ Len(new) > 0 /\ Len(new) \in Nat
    BY <1>3 DEF new
  <2>2. CASE Len(new) >= Len(old)
    BY <2>1, <2>2 DEF Over
  <2>3. CASE ~(Len(new) >= Len(old))
    <3> DEFINE rest == SubSeq(old, Len(new) + 1, Len(old))
    <3>1. \A i \in Len(new) + 1..Len(old) : old[i] \in S
      BY <1>1, <1>2, <2>1
    <3>2. rest \in Seq(S)
      BY <1>1, <2>1, <3>1, SubSeqProperties
    <3> HIDE DEF rest
    <3>3. new \o rest \in Seq(S) /\ new \o rest # << >>
      BY <2>1, <3>2, ConcatProperties, ConcatEqualIffEmpty
    <3> QED BY <2>3, <3>3 DEF Over, rest
  <2> QED BY <2>2, <2>3
<1> QED BY <1>3, <1>4, <1>5 DEF new

\* Printing adds bytes to a pipe.
LEMMA Printing ==
  ASSUME TInv, NEW p \in Process, NEW S, stdout[p] \in Seq(S), NEW bytes \in Seq(S)
  PROVE  /\ Printed(p, bytes) \in Seq(S)
         /\ p # Root /\ bytes # << >> => Printed(p, bytes) # << >>
BY ConcatProperties, ConcatEqualIffEmpty DEF Printed

-----------------------------------------------------------------------------
(* What each action does, process by process.                              *)

\* What Start does.
LEMMA StartDoes ==
  ASSUME TInv, NEW p \in Process, Start(p)
  PROVE  /\ pc[p] = "start" /\ pc'[p] = "read" /\ stdin[p] # << >>
         /\ stdin'[p] = Tail(stdin[p])
         /\ \A r \in Process : r # p => pc'[r] = pc[r] /\ stdin'[r] = stdin[r]
         /\ UNCHANGED <<input, name, pList, stdout, cmd, pNode, middle, made>>
BY DEF TInv, TypeOK, Start

\* What Meet does.
LEMMA MeetDoes ==
  ASSUME TInv, NEW p \in Process, NEW q \in Process, Meet(p, q)
  PROVE  /\ stdin[p] # << >> /\ Head(stdin[p]) \in 1..Len(input)
         /\ name'[q] = input[Head(stdin[p])].child /\ made'[q] = Head(stdin[p])
         /\ pList'[p] = Append(pList[p], q)
         /\ stdin'[p] = Tail(stdin[p]) /\ stdin'[q] = <<Head(stdin[p])>>
         /\ stdout'[p] = Printed(p, name[p])
         /\ cmd'[p] = Head(stdin[p])
<1>1. stdin[p] # << >> /\ p # q
  BY NowOne DEF Meet, Finds, None
<1>2. Head(stdin[p]) \in 1..Len(input)
  BY <1>1, NowOne, HeadTailProperties
<1> QED BY <1>1, <1>2 DEF TInv, TypeOK, Meet

\* Who takes part in a meeting, and who does not.
LEMMA MeetLeaves ==
  ASSUME TInv, NEW p \in Process, NEW q \in Process, Meet(p, q)
  PROVE  /\ p # q /\ q # Root /\ pc[q] = None /\ pc[p] = "read" /\ pc'[q] = "start"
         /\ \A r \in Process : r # q => pc'[r] = pc[r] /\ name'[r] = name[r] /\ made'[r] = made[r]
         /\ \A r \in Process : r # p => pList'[r] = pList[r] /\ stdout'[r] = stdout[r] /\ cmd'[r] = cmd[r]
         /\ \A r \in Process : r # p /\ r # q => stdin'[r] = stdin[r]
         /\ input' = input /\ pNode' = pNode /\ middle' = middle
<1>1. pc[p] = "read" /\ pc[q] = None
  BY DEF Meet, Finds
<1>2. q # Root /\ p # q
  BY <1>1, NowOne DEF Working, None
<1>3. pc'[q] = "start" /\ \A r \in Process : r # q => pc'[r] = pc[r] /\ name'[r] = name[r] /\ made'[r] = made[r]
  BY DEF TInv, TypeOK, Meet
<1>4. /\ \A r \in Process : r # p => pList'[r] = pList[r] /\ stdout'[r] = stdout[r] /\ cmd'[r] = cmd[r]
      /\ \A r \in Process : r # p /\ r # q => stdin'[r] = stdin[r]
  BY DEF TInv, TypeOK, Meet
<1> QED BY <1>1, <1>2, <1>3, <1>4 DEF Meet

\* What PassDown does.
LEMMA PassDownDoes ==
  ASSUME TInv, NEW p \in Process, PassDown(p)
  PROVE  /\ pc[p] = "read" /\ pc'[p] = "ask"
         /\ stdin[p] # << >> /\ Head(stdin[p]) \in 1..Len(input)
         /\ \A r \in Process : r # p => /\ pc'[r] = pc[r] /\ stdin'[r] = stdin[r] /\ cmd'[r] = cmd[r]
                                        /\ pNode'[r] = pNode[r] /\ middle'[r] = middle[r]
         /\ stdin'[p] = Tail(stdin[p]) /\ cmd'[p] = Head(stdin[p])
         /\ pNode'[p] = 1 /\ middle'[p] = << >>
         /\ UNCHANGED <<input, name, pList, stdout, made>>
<1>1. pc[p] = "read" /\ stdin[p] # << >>
  BY DEF PassDown, Finds
<1>2. Head(stdin[p]) \in 1..Len(input)
  BY <1>1, NowOne, HeadTailProperties
<1> QED BY <1>1, <1>2 DEF TInv, TypeOK, PassDown

\* What Ask does.
LEMMA AskDoes ==
  ASSUME TInv, NEW p \in Process, Ask(p)
  PROVE  /\ pc[p] = "ask" /\ pc'[p] = "listen"
         /\ pNode[p] \in 1..Len(pList[p]) /\ pList[p][pNode[p]] \in Process
         /\ \A r \in Process : r # p => pc'[r] = pc[r]
         /\ stdin'[pList[p][pNode[p]]] = Append(stdin[pList[p][pNode[p]]], cmd[p])
         /\ \A r \in Process : r # pList[p][pNode[p]] => stdin'[r] = stdin[r]
         /\ UNCHANGED <<input, name, pList, stdout, cmd, pNode, middle, made>>
<1>1. pNode[p] \in 1..Len(pList[p]) /\ pList[p][pNode[p]] \in Process
  BY NowOne DEF Ask
<1> QED BY <1>1 DEF TInv, TypeOK, Ask

\* c is the child that p listens to.
Child(p) == pList[p][pNode[p]]

\* What Listen does.
LEMMA ListenDoes ==
  ASSUME TInv, NEW p \in Process, Listen(p)
  PROVE  /\ pc[p] = "listen" /\ pc'[p] \in {"ask", "read"}
         /\ pNode[p] \in 1..Len(pList[p]) /\ Child(p) \in Process /\ stdout[Child(p)] # << >>
         /\ \A r \in Process : r # p =>
              pc'[r] = pc[r] /\ pNode'[r] = pNode[r] /\ middle'[r] = middle[r]
         /\ pNode'[p] \in {pNode[p], pNode[p] + 1}
         /\ pc'[p] = "ask" => pNode'[p] = pNode[p] + 1
         /\ middle'[p] = Over(Taken(stdout[Child(p)]), middle[p])
         /\ stdout'[p] = Printed(p, middle'[p])
         /\ Child(p) # p => stdout'[Child(p)] = LeftIn(stdout[Child(p)])
         /\ \A r \in Process : r \notin {p, Child(p)} => stdout'[r] = stdout[r]
         /\ UNCHANGED <<input, name, pList, stdin, cmd, made>>
<1>1. pc[p] = "listen" /\ pNode[p] \in 1..Len(pList[p]) /\ Child(p) \in Process
  BY NowOne DEF Listen, Working, Child
<1>2. /\ pc'[p] \in {"ask", "read"} /\ pNode'[p] \in {pNode[p], pNode[p] + 1}
      /\ pc'[p] = "ask" => pNode'[p] = pNode[p] + 1
      /\ \A r \in Process : r # p => pc'[r] = pc[r] /\ pNode'[r] = pNode[r]
  BY DEF TInv, TypeOK, Listen
<1>3. /\ stdout[Child(p)] # << >>
      /\ middle'[p] = Over(Taken(stdout[Child(p)]), middle[p])
      /\ \A r \in Process : r # p => middle'[r] = middle[r]
      /\ UNCHANGED <<input, name, pList, stdin, cmd, made>>
  BY DEF TInv, TypeOK, Listen, Child
<1>4. stdout' = [stdout EXCEPT ![Child(p)] = LeftIn(@), ![p] = Printed(p, middle'[p])]
  BY <1>3 DEF TInv, TypeOK, Listen, Child
<1> QED BY <1>1, <1>2, <1>3, <1>4 DEF TInv, TypeOK

\* What Fail does.
LEMMA FailDoes ==
  ASSUME TInv, NEW p \in Process, Fail(p)
  PROVE  /\ pc[p] = "ask" /\ pc'[p] = "read" /\ pNode[p] > Len(pList[p])
         /\ \A r \in Process : r # p => pc'[r] = pc[r] /\ stdout'[r] = stdout[r]
         /\ stdout'[p] = Printed(p, <<No>>)
         /\ UNCHANGED <<input, name, pList, stdin, cmd, pNode, middle, made>>
BY DEF TInv, TypeOK, Fail

-----------------------------------------------------------------------------
(* Every step keeps the types and the tree.                                *)

\* A step that meets nobody leaves the tree as it is.
LEMMA SameTree ==
  ASSUME TInv, pList' = pList, \A r \in Process : pc'[r] = None => pc[r] = None
  PROVE  (\A p \in Process : Forked(p)') /\ \A p, r \in Process : OneParent(p, r)'
<1>1. \A p \in Process : Forked(p)'
  BY NowOne DEF Forked
<1>2. \A p, r \in Process : OneParent(p, r)'
  BY DEF TInv, OneParent
<1> QED BY <1>1, <1>2

\* Start keeps the tree.
LEMMA StartTypes == ASSUME TInv, NEW p \in Process, Start(p) PROVE TInv'
<1>1. Tail(stdin[p]) \in Seq(1..Len(input))
  BY NowOne, HeadTailProperties, StartDoes
<1>2. TypeOK'
  BY <1>1, StartDoes DEF TInv, TypeOK, Start, PC
<1>3. ASSUME NEW r \in Process
      PROVE  Working(r)'
  BY StartDoes, NowOne DEF Working, None
<1>4. \A r \in Process : pc'[r] = None => pc[r] = None
  BY StartDoes DEF None
<1> QED BY <1>2, <1>3, <1>4, StartDoes, SameTree DEF TInv

\* Meet keeps the tree: the new friend is a child of its maker only.
LEMMA MeetTypes == ASSUME TInv, NEW p \in Process, NEW q \in Process, Meet(p, q) PROVE TInv'
<1> DEFINE h == Head(stdin[p])
<1>1. h \in 1..Len(input) /\ stdin[p] # << >>
  BY MeetDoes
<1>a. stdin[p] \in Seq(1..Len(input)) /\ pList[p] \in Seq(Process)
      /\ cmd[p] \in 0..Len(input) /\ made[q] \in 0..Len(input) /\ Len(input) \in Nat
      /\ Len(pList[p]) \in Nat
  BY NowOne
<1>b. Tail(stdin[p]) \in Seq(1..Len(input))
  BY <1>1, <1>a, HeadTailProperties
<1>c. <<h>> \in Seq(1..Len(input)) /\ <<h>> # << >>
  BY <1>1
<1>3. input[h].child \in Name
  BY <1>1, InputIsCommands DEF TInv, TypeOK, Command
<1>4. /\ Append(pList[p], q) \in Seq(Process) /\ Len(Append(pList[p], q)) = Len(pList[p]) + 1
  BY <1>a, AppendProperties
<1>5. Printed(p, name[p]) \in Seq(Byte)
  <2>1. name[p] \in Seq(Byte)
    BY NowOne, NamesAreBytes
  <2> QED BY <2>1, NowOne, Printing
<1>6. TypeOK'
  <2>1. input' \in Inputs /\ pc' \in [Process -> PC] /\ name' \in [Process -> Name]
    BY <1>3 DEF TInv, TypeOK, Meet, PC
  <2>2. pList' \in [Process -> Seq(Process)] /\ stdout' \in [Process -> Seq(Byte)]
    BY <1>4, <1>5 DEF TInv, TypeOK, Meet
  <2>3. stdin' \in [Process -> Seq(1..Len(input'))]
    BY <1>b, <1>c DEF TInv, TypeOK, Meet
  <2>4. cmd' \in [Process -> 0..Len(input')] /\ made' \in [Process -> 0..Len(input')]
    <3>1. h \in 0..Len(input)
      BY <1>1, <1>a
    <3> QED BY <3>1 DEF TInv, TypeOK, Meet
  <2>5. pNode' \in [Process -> Nat \ {0}] /\ middle' \in [Process -> Seq(Byte)]
    BY DEF TInv, TypeOK, Meet
  <2> QED BY <2>1, <2>2, <2>3, <2>4, <2>5 DEF TypeOK
<1> HIDE DEF h
<1>d. /\ p # q /\ q # Root /\ pc[q] = None /\ pc[p] = "read" /\ pc'[q] = "start"
      /\ input' = input /\ pNode' = pNode
      /\ \A r \in Process : r # q => pc'[r] = pc[r]
      /\ \A r \in Process : r # p => pList'[r] = pList[r] /\ cmd'[r] = cmd[r]
      /\ \A r \in Process : r # p /\ r # q => stdin'[r] = stdin[r]
  BY MeetLeaves
<1>i. stdin'[q] = <<h>>
  BY MeetDoes DEF h
<1>7. ASSUME NEW r \in Process
      PROVE  Working(r)'
  <2>1. CASE r = p
    BY <2>1, <1>d DEF Working, None
  <2>2. CASE r = q
    BY <2>2, <1>c, <1>d, <1>i DEF Working, None
  <2>3. CASE r \notin {p, q}
    <3>1. Working(r)
      BY NowOne
    <3> QED BY <2>3, <3>1, <1>d DEF Working
  <2> QED BY <2>1, <2>2, <2>3
<1> DEFINE n == Len(pList[p])
<1>e. /\ Len(pList'[p]) = n + 1 /\ pList'[p][n + 1] = q
      /\ \A i \in 1..n : pList'[p][i] = pList[p][i]
  <2>1. pList'[p] = Append(pList[p], q)
    BY MeetDoes
  <2> QED BY <2>1, <1>a, AppendProperties
<1>f. n \in Nat /\ \A i \in 1..n + 1 : i \in 1..n \/ i = n + 1
  BY <1>a
<1>g. ASSUME NEW r \in Process, NEW i \in 1..Len(pList[r])
      PROVE  /\ pList[r][i] \in Process /\ pList[r][i] # Root /\ pList[r][i] # r
             /\ pc[pList[r][i]] # None
             /\ pList[r][i] # q /\ pc'[pList[r][i]] # None
  <2>1. pList[r][i] \in Process /\ Forked(r)
    BY NowOne
  <2> QED BY <2>1, <1>d DEF Forked
<1>h. ASSUME NEW r \in Process, NEW i \in 1..Len(pList'[r])
      PROVE  \/ i \in 1..Len(pList[r]) /\ pList'[r][i] = pList[r][i] /\ pList[r][i] # q
             \/ r = p /\ i = n + 1 /\ pList'[r][i] = q
  <2>1. CASE r = p
    BY <2>1, <1>e, <1>f, <1>g, <1>h
  <2>2. CASE r # p
    BY <2>2, <1>d, <1>g, <1>h
  <2> QED BY <2>1, <2>2
<1> HIDE DEF n
<1>8. ASSUME NEW r \in Process
      PROVE  Forked(r)'
  <2> SUFFICES ASSUME NEW i \in 1..Len(pList'[r])
               PROVE  pList'[r][i] # Root /\ pList'[r][i] # r /\ pc'[pList'[r][i]] # None
    BY DEF Forked
  <2>1. \/ i \in 1..Len(pList[r]) /\ pList'[r][i] = pList[r][i]
        \/ r = p /\ pList'[r][i] = q
    BY <1>h
  <2> QED BY <2>1, <1>d, <1>g DEF None
<1>9. ASSUME NEW r \in Process, NEW s \in Process
      PROVE  OneParent(r, s)'
  <2> SUFFICES ASSUME NEW i \in 1..Len(pList'[r]), NEW j \in 1..Len(pList'[s]),
                      pList'[r][i] = pList'[s][j]
               PROVE  r = s /\ i = j
    BY DEF OneParent
  <2>1. \/ i \in 1..Len(pList[r]) /\ pList'[r][i] = pList[r][i] /\ pList[r][i] # q
        \/ r = p /\ i = n + 1 /\ pList'[r][i] = q
    BY <1>h
  <2>2. \/ j \in 1..Len(pList[s]) /\ pList'[s][j] = pList[s][j] /\ pList[s][j] # q
        \/ s = p /\ j = n + 1 /\ pList'[s][j] = q
    BY <1>h
  <2>3. OneParent(r, s)
    BY NowOne
  <2> QED BY <2>1, <2>2, <2>3 DEF OneParent
<1> QED BY <1>6, <1>7, <1>8, <1>9 DEF TInv

\* PassDown keeps the tree.
LEMMA PassDownTypes == ASSUME TInv, NEW p \in Process, PassDown(p) PROVE TInv'
<1>1. Tail(stdin[p]) \in Seq(1..Len(input)) /\ Head(stdin[p]) \in 1..Len(input)
  BY NowOne, HeadTailProperties, PassDownDoes
<1>2. TypeOK'
  <2>1. /\ pc' \in [Process -> PC] /\ stdin' \in [Process -> Seq(1..Len(input'))]
        /\ pNode' \in [Process -> Nat \ {0}]
    BY <1>1 DEF TInv, TypeOK, PassDown, PC
  <2>2. middle' \in [Process -> Seq(Byte)]
    BY EmptySeq DEF TInv, TypeOK, PassDown
  <2>3. cmd' \in [Process -> 0..Len(input')]
    <3>1. cmd \in [Process -> 0..Len(input)] /\ Len(input) \in Nat
      BY NowOne DEF TInv, TypeOK
    <3>2. cmd' = [cmd EXCEPT ![p] = Head(stdin[p])] /\ input' = input
      BY DEF PassDown
    <3>3. Head(stdin[p]) \in 0..Len(input)
      BY <1>1, <3>1
    <3> QED BY <3>1, <3>2, <3>3
  <2> QED BY <2>1, <2>2, <2>3 DEF TInv, TypeOK, PassDown
<1>3. ASSUME NEW r \in Process
      PROVE  Working(r)'
  <2>1. Working(r)
    BY NowOne
  <2>2. CASE r = p
    BY <2>2, <1>1, PassDownDoes DEF Working, None
  <2>3. CASE r # p
    BY <2>1, <2>3, PassDownDoes DEF Working
  <2> QED BY <2>2, <2>3
<1>4. \A r \in Process : pc'[r] = None => pc[r] = None
  BY PassDownDoes DEF None
<1> QED BY <1>2, <1>3, <1>4, PassDownDoes, SameTree DEF TInv

\* Ask keeps the tree.
LEMMA AskTypes == ASSUME TInv, NEW p \in Process, Ask(p) PROVE TInv'
<1>1. cmd[p] \in 1..Len(input) /\ Child(p) \in Process
  BY NowOne, AskDoes DEF Working, Child
<1>2. Append(stdin[Child(p)], cmd[p]) \in Seq(1..Len(input)) /\ Append(stdin[Child(p)], cmd[p]) # << >>
  <2>1. stdin[Child(p)] \in Seq(1..Len(input))
    BY <1>1, NowOne
  <2> QED BY <1>1, <2>1, AppendProperties
<1>3. TypeOK'
  <2>1. pc' \in [Process -> PC] /\ stdin' \in [Process -> Seq(1..Len(input'))]
    BY <1>2 DEF TInv, TypeOK, Ask, Child, PC
  <2> QED BY <2>1 DEF TInv, TypeOK, Ask
<1>4. pc[Child(p)] # None
  BY AskDoes, NowOne DEF Forked, Child
<1>5. ASSUME NEW r \in Process
      PROVE  Working(r)'
  <2>1. Working(r)
    BY NowOne
  <2>2. r = Child(p) => stdin'[r] # << >>
    BY <1>2, AskDoes DEF Child
  <2>3. r # Child(p) => stdin'[r] = stdin[r]
    BY AskDoes DEF Child
  <2>4. r # p => pc'[r] = pc[r]
    BY AskDoes
  <2>5. /\ pc'[p] = "listen" /\ cmd[p] \in 1..Len(input) /\ pNode[p] \in 1..Len(pList[p])
        /\ UNCHANGED <<input, pList, cmd, pNode>>
    BY <1>1, AskDoes
  <2> QED BY <2>1, <2>2, <2>3, <2>4, <2>5, <1>4 DEF Working, None
<1>6. \A r \in Process : pc'[r] = None => pc[r] = None
  BY AskDoes DEF None
<1> QED BY <1>3, <1>5, <1>6, AskDoes, SameTree DEF TInv

\* Listen keeps the tree.
LEMMA ListenTypes == ASSUME TInv, NEW p \in Process, Listen(p) PROVE TInv'
<1>1. Child(p) \in Process /\ stdout[Child(p)] # << >> /\ pNode[p] \in 1..Len(pList[p])
  BY ListenDoes
<1>2. LeftIn(stdout[Child(p)]) \in Seq(Byte) /\ Over(Taken(stdout[Child(p)]), middle[p]) \in Seq(Byte)
  BY <1>1, NowOne, Reading
<1>3. Printed(p, Over(Taken(stdout[Child(p)]), middle[p])) \in Seq(Byte)
  BY <1>2, NowOne, Printing
<1>4. TypeOK'
  <2>1. pc' \in [Process -> PC]
    BY DEF TInv, TypeOK, Listen, PC
  <2>2. pNode' \in [Process -> Nat \ {0}]
    BY SMTT(30), NowOne DEF TInv, TypeOK, Listen
  <2>3. stdout' \in [Process -> Seq(Byte)] /\ middle' \in [Process -> Seq(Byte)]
    BY <1>2, <1>3 DEF TInv, TypeOK, Listen, Child
  <2> QED BY <2>1, <2>2, <2>3 DEF TInv, TypeOK, Listen
<1>5. ASSUME NEW r \in Process
      PROVE  Working(r)'
  BY ListenDoes, NowOne DEF Working, None
<1>6. \A r \in Process : pc'[r] = None => pc[r] = None
  BY ListenDoes DEF None
<1> QED BY <1>4, <1>5, <1>6, ListenDoes, SameTree DEF TInv

\* Fail keeps the tree.
LEMMA FailTypes == ASSUME TInv, NEW p \in Process, Fail(p) PROVE TInv'
<1>1. Printed(p, <<No>>) \in Seq(Byte)
  <2>1. <<No>> \in Seq(Byte)
    BY DEF Byte
  <2> QED BY <2>1, NowOne, Printing
<1>2. TypeOK'
  BY <1>1 DEF TInv, TypeOK, Fail, PC
<1>3. ASSUME NEW r \in Process
      PROVE  Working(r)'
  BY FailDoes, NowOne DEF Working, None
<1>4. \A r \in Process : pc'[r] = None => pc[r] = None
  BY FailDoes DEF None
<1> QED BY <1>2, <1>3, <1>4, FailDoes, SameTree DEF TInv

\* Every step keeps the tree.
LEMMA NextTypes == TInv /\ [Next]_vars => TInv'
<1> SUFFICES ASSUME TInv, [Next]_vars
             PROVE  TInv'
  OBVIOUS
<1>1. CASE UNCHANGED vars
  BY <1>1 DEF vars, TInv, TypeOK, Working, Forked, OneParent
<1>2. ASSUME NEW p \in Process, Step(p)
      PROVE  TInv'
  BY <1>2, StartTypes, MeetTypes, PassDownTypes, AskTypes, ListenTypes, FailTypes DEF Step
<1> QED BY <1>1, <1>2 DEF Next

\* TInv is an invariant.
LEMMA TreeInvariance == Spec => []TInv
BY InitTypes, NextTypes, PTL DEF Spec

\* Every variable keeps its type: TypeOK of the runs, for any commands.
THEOREM TypesKept == Spec => []TypeOK
<1>1. TInv => TypeOK
  BY DEF TInv
<1> QED BY <1>1, TreeInvariance, PTL

-----------------------------------------------------------------------------
(* A friend that is asked has an answer in its pipe, or still owes one.    *)

Owes(c) ==
  \/ stdout[c] # << >>
  \/ pc[c] \in {"ask", "listen"}
  \/ pc[c] = "read" /\ stdin[c] # << >>
  \/ pc[c] = "start" /\ Len(stdin[c]) > 1

Owed == \A p \in Process : pc[p] = "listen" => Owes(Child(p))

\* A step of r keeps what c owes, unless r is the one who listens to it.
LEMMA StillOwes ==
  ASSUME TInv, NEW c \in Process, c # Root, Owes(c), NEW r \in Process, Step(r),
         pc[c] # None, r = c \/ pc[r] # "listen" \/ Child(r) # c
  PROVE  Owes(c)'
<1>0. /\ stdin[c] \in Seq(1..Len(input)) /\ Len(stdin[c]) \in Nat /\ stdout[c] \in Seq(Byte)
      /\ Len(stdout[c]) \in Nat /\ cmd[r] \in 0..Len(input)
  BY NowOne
<1>p. ASSUME NEW bytes \in Seq(Byte), bytes # << >>
      PROVE  Printed(c, bytes) # << >>
  BY <1>0, <1>p, Printing
<1>1. CASE Start(r)
  <2>1. CASE r = c
    <3>1. stdin[c] # << >> /\ stdin'[c] = Tail(stdin[c]) /\ pc[c] = "start" /\ pc'[c] = "read"
          /\ stdout' = stdout
      BY <1>1, <2>1, StartDoes
    <3>2. Len(stdin'[c]) = Len(stdin[c]) - 1
      BY <1>0, <3>1, HeadTailProperties
    <3>3. stdout[c] = << >> => Len(stdin'[c]) > 0
      BY <1>0, <3>1, <3>2 DEF Owes
    <3>4. stdout[c] = << >> => stdin'[c] # << >>
      BY <3>3, EmptySeq
    <3> QED BY <3>1, <3>4 DEF Owes
  <2>2. CASE r # c
    BY <1>1, <2>2, StartDoes DEF Owes
  <2> QED BY <2>1, <2>2
<1>2. ASSUME NEW q \in Process, Meet(r, q)
      PROVE  Owes(c)'
  <2>1. q # c /\ pc'[c] = pc[c] /\ r # q
    BY <1>2, MeetLeaves
  <2>2. CASE r = c
    <3>1. stdout'[c] = Printed(c, name[c])
      BY <1>2, <2>2, MeetDoes
    <3>2. name[c] \in Seq(Byte) /\ name[c] # << >>
      BY NowOne, NamesAreBytes
    <3> QED BY <1>p, <3>1, <3>2 DEF Owes
  <2>3. CASE r # c
    <3>1. stdout'[c] = stdout[c] /\ stdin'[c] = stdin[c]
      BY <1>2, <2>1, <2>3, MeetLeaves
    <3> QED BY <2>1, <3>1 DEF Owes
  <2> QED BY <2>2, <2>3
<1>3. CASE PassDown(r)
  BY <1>3, PassDownDoes DEF Owes
<1>4. CASE Ask(r)
  <2>1. pc[r] = "ask" /\ pc'[r] = "listen" /\ stdout' = stdout /\ cmd[r] \in 1..Len(input)
        /\ (r # c => pc'[c] = pc[c])
    BY <1>4, AskDoes, NowOne DEF Working
  <2>2. CASE Child(r) = c
    <3>1. stdin'[c] = Append(stdin[c], cmd[r])
      BY <1>4, <2>2, AskDoes DEF Child
    <3> DEFINE new == Append(stdin[c], cmd[r])
    <3>2. new # << >> /\ Len(new) = Len(stdin[c]) + 1
      <4>1. stdin[c] \in Seq(1..Len(input)) /\ cmd[r] \in 1..Len(input)
        BY <1>0, <2>1
      <4> QED BY <4>1, AppendProperties
    <3> HIDE DEF new
    <3>3. stdin'[c] # << >> /\ Len(stdin'[c]) = Len(stdin[c]) + 1
      BY <3>1, <3>2 DEF new
    <3> QED BY <1>0, <2>1, <3>3 DEF Owes
  <2>3. CASE Child(r) # c
    <3>1. stdin'[c] = stdin[c]
      BY <1>4, <2>3, AskDoes DEF Child
    <3> QED BY <2>1, <3>1 DEF Owes
  <2> QED BY <2>2, <2>3
<1>5. CASE Listen(r)
  <2>1. pc[r] = "listen" /\ Child(r) \in Process /\ stdout[Child(r)] # << >>
    BY <1>5, ListenDoes
  <2>2. CASE r = c
    <3>1. middle'[c] \in Seq(Byte) /\ middle'[c] # << >>
      <4>1. stdout[Child(r)] \in Seq(Byte) /\ middle[r] \in Seq(Byte)
        BY <2>1, NowOne
      <4>2. middle'[r] = Over(Taken(stdout[Child(r)]), middle[r])
        BY <1>5, ListenDoes
      <4> QED BY <2>1, <2>2, <4>1, <4>2, Reading
    <3>2. stdout'[c] = Printed(c, middle'[c])
      BY <1>5, <2>2, ListenDoes
    <3> QED BY <1>p, <3>1, <3>2 DEF Owes
  <2>3. CASE r # c
    <3>1. Child(r) # c
      BY <2>1, <2>3
    <3>2. stdout'[c] = stdout[c] /\ pc'[c] = pc[c] /\ stdin' = stdin
      BY <1>5, <2>3, <3>1, ListenDoes
    <3> QED BY <3>2 DEF Owes
  <2> QED BY <2>2, <2>3
<1>6. CASE Fail(r)
  <2>1. CASE r = c
    <3>1. stdout'[c] = Printed(c, <<No>>)
      BY <1>6, <2>1, FailDoes
    <3>2. <<No>> \in Seq(Byte) /\ <<No>> # << >>
      BY DEF Byte
    <3> QED BY <1>p, <3>1, <3>2 DEF Owes
  <2>2. CASE r # c
    BY <1>6, <2>2, FailDoes DEF Owes
  <2> QED BY <2>1, <2>2
<1> QED BY <1>1, <1>2, <1>3, <1>4, <1>5, <1>6 DEF Step

\* A friend that is asked has a command to answer.
LEMMA AskedOwes ==
  ASSUME TInv, NEW p \in Process, Ask(p)
  PROVE  pc'[p] = "listen" /\ Owes(Child(p))'
<1> DEFINE c == Child(p)
<1>1. /\ c \in Process /\ pc[c] \in PC /\ pc[c] # None /\ pc'[p] = "listen"
      /\ c # p => pc'[c] = pc[c]
      /\ stdin'[c] = Append(stdin[c], cmd[p]) /\ UNCHANGED <<stdout, pNode, pList>>
  BY SMTT(30), AskDoes, NowOne DEF Forked, Child
<1>2. cmd[p] \in 1..Len(input) /\ stdin[c] \in Seq(1..Len(input)) /\ Len(stdin[c]) \in Nat
      /\ (pc[c] = "start" => stdin[c] # << >>)
  BY <1>1, AskDoes, NowOne DEF Working
<1>3. stdin'[c] # << >> /\ Len(stdin'[c]) = Len(stdin[c]) + 1
  BY <1>1, <1>2, AppendProperties
<1>4. Len(stdin[c]) = 0 => stdin[c] = << >>
  BY <1>2, EmptySeq
<1>5. Child(p)' = c
  BY <1>1 DEF Child
<1> HIDE DEF c
<1> QED BY <1>1, <1>2, <1>3, <1>4, <1>5 DEF Owes, PC

\* What a step of another process leaves alone.
LEMMA OthersKeep ==
  ASSUME TInv, NEW p \in Process, NEW r \in Process, r # p, Step(r), pc[p] = "listen"
  PROVE  pc'[p] = pc[p] /\ Child(p)' = Child(p)
<1>1. CASE Start(r) \/ PassDown(r) \/ Ask(r) \/ Listen(r) \/ Fail(r)
  BY <1>1, StartDoes, PassDownDoes, AskDoes, ListenDoes, FailDoes DEF Child
<1>2. ASSUME NEW q \in Process, Meet(r, q)
      PROVE  pc'[p] = pc[p] /\ Child(p)' = Child(p)
  <2>1. pc[q] # "listen"
    BY <1>2, MeetLeaves DEF None
  <2>2. pc'[p] = pc[p] /\ pList'[p] = pList[p] /\ pNode' = pNode
    BY <1>2, <2>1, MeetLeaves
  <2> QED BY <2>2 DEF Child
<1> QED BY <1>1, <1>2 DEF Step

\* A listener that makes a step listens no more.
LEMMA ListenerMoves ==
  ASSUME TInv, NEW p \in Process, Step(p), pc'[p] = "listen"
  PROVE  Ask(p)
<1>1. ASSUME NEW q \in Process, Meet(p, q)
      PROVE  pc'[p] # "listen"
  BY <1>1, MeetLeaves
<1> QED BY <1>1, StartDoes, PassDownDoes, ListenDoes, FailDoes DEF Step

\* A step makes only the process that makes it listen.
LEMMA WhoListens ==
  ASSUME TInv, NEW p \in Process, NEW r \in Process, r # p, Step(r), pc'[p] = "listen"
  PROVE  pc[p] = "listen"
<1>1. ASSUME NEW q \in Process, Meet(r, q)
      PROVE  pc[p] = "listen"
  BY <1>1, MeetLeaves
<1> QED BY <1>1, StartDoes, PassDownDoes, AskDoes, ListenDoes, FailDoes DEF Step

\* Every step leaves those who listen something to hear.
LEMMA NextOwed == TInv /\ Owed /\ [Next]_vars => Owed'
<1> SUFFICES ASSUME TInv, Owed, [Next]_vars
             PROVE  Owed'
  OBVIOUS
<1>1. CASE UNCHANGED vars
  BY <1>1 DEF vars, Owed, Owes, Child
<1>2. ASSUME NEW r \in Process, Step(r), NEW p \in Process, pc'[p] = "listen"
      PROVE  Owes(Child(p))'
  <2>1. CASE r = p
    BY <1>2, <2>1, ListenerMoves, AskedOwes
  <2>2. CASE r # p
    <3>0. pc[p] = "listen" /\ Child(p)' = Child(p)
      BY <1>2, <2>2, WhoListens, OthersKeep
    <3>k. pNode[p] \in 1..Len(pList[p]) /\ Child(p) \in Process
      BY <3>0, NowOne DEF Working, Child
    <3>1. PICK c \in Process : Child(p) = c /\ Child(p)' = c
      BY <3>0, <3>k
    <3>2. pNode[p] \in 1..Len(pList[p]) /\ c # Root /\ pc[c] # None /\ Owes(c)
      <4>1. Forked(p)
        BY NowOne
      <4>2. Owes(c)
        BY <3>0, <3>1 DEF Owed, Owes
      <4> QED BY <3>k, <3>1, <4>1, <4>2 DEF Forked, Child
    <3>3. pc[r] # "listen" \/ Child(r) # c
      <4> SUFFICES ASSUME pc[r] = "listen", pList[r][pNode[r]] = pList[p][pNode[p]]
                   PROVE  FALSE
        BY <3>1 DEF Child
      <4>1. pNode[r] \in 1..Len(pList[r]) /\ OneParent(p, r)
        BY NowOne DEF Working
      <4> QED BY <2>2, <3>2, <4>1 DEF OneParent
    <3>4. Owes(c)'
      BY <1>2, <3>2, <3>3, StillOwes
    <3> QED BY <3>1, <3>4 DEF Owes
  <2> QED BY <2>1, <2>2
<1> QED BY <1>1, <1>2 DEF Next, Owed

\* ReadsAreOwed of the runs: no friend waits for an answer in vain, however
\* answers have been split, merged and left over.
THEOREM ReadsGetAnswers == Spec => []ReadsAreOwed
<1>1. Init => Owed
  BY DEF Init, Owed, None
<1>2. Owed => ReadsAreOwed
  BY DEF Owed, Owes, Child, ReadsAreOwed
<1> QED BY <1>1, <1>2, NextOwed, TreeInvariance, PTL DEF Spec

-----------------------------------------------------------------------------
(* Commands stay in order on their way down.                               *)

Order(p) ==
  /\ \A j, k \in 1..Len(pList[p]) : j < k => made[pList[p][j]] < made[pList[p][k]]
  /\ \A j, k \in 1..Len(stdin[p]) : j < k => stdin[p][j] < stdin[p][k]
  /\ \A j \in 1..Len(pList[p]) : made[pList[p][j]] <= cmd[p]
  /\ \A k \in 1..Len(stdin[p]) : cmd[p] < stdin[p][k]

\* c has not been handed a command later than n.
Behind(c, n) == cmd[c] <= n /\ \A k \in 1..Len(stdin[c]) : stdin[c][k] <= n

\* A child has been handed no later command than p's, and not even that one
\* if it is still to be asked.
Handed(p) ==
  \A i \in 1..Len(pList[p]) :
    /\ Behind(pList[p][i], cmd[p])
    /\ pc[p] = "ask" /\ i >= pNode[p] => Behind(pList[p][i], cmd[p] - 1)
    /\ pc[p] = "listen" /\ i > pNode[p] => Behind(pList[p][i], cmd[p] - 1)

InOrder == \A p \in Process : Order(p) /\ Handed(p)

\* A pipe that loses its first command.
LEMMA OneLess ==
  ASSUME NEW n \in Nat, NEW s \in Seq(1..n), s # << >>
  PROVE  /\ Head(s) = s[1] /\ 1 \in 1..Len(s) /\ s[1] \in 1..n
         /\ Len(Tail(s)) \in Nat /\ \A k \in 1..Len(s) : s[k] \in Int
         /\ \A k \in 1..Len(Tail(s)) : k \in Int /\ k + 1 \in 1..Len(s) /\ Tail(s)[k] = s[k + 1]
<1>1. Len(s) \in Nat /\ Len(s) > 0
  BY LenProperties, EmptySeq
<1>2. Len(Tail(s)) = Len(s) - 1 /\ \A k \in 1..Len(Tail(s)) : Tail(s)[k] = s[k + 1]
  BY HeadTailProperties
<1>3. \A k \in 1..Len(s) : s[k] \in 1..n
  BY ElementOfSeq
<1>4. Head(s) = s[1]
  BY <1>1
<1> QED BY <1>1, <1>2, <1>3, <1>4

\* p takes a command off its pipe, and may make it its own.
LEMMA TakesOne ==
  ASSUME TInv, NEW p \in Process, Order(p), NEW n \in Int,
         stdin[p] # << >>, stdin'[p] = Tail(stdin[p]),
         cmd'[p] = cmd[p] \/ cmd'[p] = Head(stdin[p])
  PROVE  /\ \A j, k \in 1..Len(stdin'[p]) : j < k => stdin'[p][j] < stdin'[p][k]
         /\ \A k \in 1..Len(stdin'[p]) : cmd'[p] < stdin'[p][k]
         /\ cmd[p] < Head(stdin[p])
         /\ cmd[p] <= cmd'[p]
         /\ Behind(p, n) => Behind(p, n)'
<1> DEFINE s == stdin[p]  t == Tail(s)
<1>1. s \in Seq(1..Len(input)) /\ Len(input) \in Nat /\ cmd[p] \in Int
  BY NowOne
<1>2. /\ Head(s) = s[1] /\ 1 \in 1..Len(s) /\ s[1] \in 1..Len(input) /\ Len(t) \in Nat
      /\ \A k \in 1..Len(s) : s[k] \in Int
      /\ \A k \in 1..Len(t) : k \in Int /\ k + 1 \in 1..Len(s) /\ t[k] = s[k + 1]
  BY <1>1, OneLess
<1>3. /\ \A j, k \in 1..Len(s) : j < k => s[j] < s[k]
      /\ \A k \in 1..Len(s) : cmd[p] < s[k]
  BY DEF Order
<1>4. stdin'[p] = t /\ (cmd'[p] = cmd[p] \/ cmd'[p] = s[1])
  BY <1>2
<1>5. Behind(p, n) <=> cmd[p] <= n /\ \A k \in 1..Len(s) : s[k] <= n
  BY DEF Behind
<1>6. Behind(p, n)' <=> cmd'[p] <= n /\ \A k \in 1..Len(t) : t[k] <= n
  BY <1>4 DEF Behind
<1> HIDE DEF s, t
<1>7. \A k \in 1..Len(t) : s[1] < t[k] /\ cmd[p] < t[k]
  BY <1>1, <1>2, <1>3
<1>8. \A j, k \in 1..Len(t) : j < k => t[j] < t[k]
  BY <1>2, <1>3
<1>9. cmd[p] < s[1]
  BY <1>2, <1>3
<1>a. Behind(p, n) => Behind(p, n)'
  <2> SUFFICES ASSUME Behind(p, n)
               PROVE  Behind(p, n)'
    OBVIOUS
  <2>1. cmd'[p] <= n
    BY <1>2, <1>4, <1>5
  <2>2. \A k \in 1..Len(t) : t[k] <= n
    BY <1>2, <1>5
  <2> QED BY <1>6, <2>1, <2>2
<1> QED BY <1>1, <1>2, <1>4, <1>7, <1>8, <1>9, <1>a DEF s, t

\* A friend that takes the first command off its pipe keeps its own order.
LEMMA TakesFirst ==
  ASSUME TInv, NEW p \in Process, Order(p),
         stdin[p] # << >>, stdin'[p] = Tail(stdin[p]),
         cmd'[p] = cmd[p] \/ cmd'[p] = Head(stdin[p])
  PROVE  /\ \A j, k \in 1..Len(stdin'[p]) : j < k => stdin'[p][j] < stdin'[p][k]
         /\ \A k \in 1..Len(stdin'[p]) : cmd'[p] < stdin'[p][k]
         /\ cmd[p] < Head(stdin[p])
<1>1. PICK n \in Int : n = 0
  OBVIOUS
<1> QED BY <1>1, TakesOne

\* The commands that come first are small numbers.
LEMMA NowNumbers ==
  ASSUME TInv, NEW p \in Process
  PROVE  /\ cmd[p] \in Int /\ cmd[p] >= 0 /\ Len(pList[p]) \in Nat /\ Len(stdin[p]) \in Nat
         /\ pNode[p] \in Int /\ pNode[p] >= 1
         /\ \A k \in 1..Len(stdin[p]) : stdin[p][k] \in Int
         /\ \A i \in 1..Len(pList[p]) : pList[p][i] \in Process /\ made[pList[p][i]] \in Int
<1>1. /\ cmd[p] \in 0..Len(input) /\ Len(input) \in Nat /\ pNode[p] \in Nat \ {0}
      /\ Len(pList[p]) \in Nat /\ Len(stdin[p]) \in Nat
      /\ \A k \in 1..Len(stdin[p]) : stdin[p][k] \in 1..Len(input)
  BY NowOne
<1>2. ASSUME NEW i \in 1..Len(pList[p])
      PROVE  pList[p][i] \in Process /\ made[pList[p][i]] \in Int
  <2>1. pList[p][i] \in Process
    BY NowOne
  <2>2. made[pList[p][i]] \in 0..Len(input)
    BY <2>1, NowOne
  <2> QED BY <1>1, <2>1, <2>2
<1> QED BY <1>1, <1>2

\* Nothing changes for p's own commands.
LEMMA SameOrder ==
  ASSUME NEW p, Order(p), pList'[p] = pList[p], stdin'[p] = stdin[p], cmd'[p] = cmd[p],
         \A i \in 1..Len(pList[p]) : made'[pList[p][i]] = made[pList[p][i]]
  PROVE  Order(p)'
BY DEF Order

\* The step hands c nothing.
Keeps(c) == \A n \in Int : Behind(c, n) => Behind(c, n)'

\* Nothing changes for what p's children have been handed.
LEMMA SameHanded ==
  ASSUME TInv, NEW p \in Process, Handed(p), pList'[p] = pList[p], cmd'[p] = cmd[p],
         \/ pc'[p] = pc[p] /\ pNode'[p] = pNode[p]
         \/ pc'[p] \notin {"ask", "listen"}
         \/ pc[p] = "listen" /\ pc'[p] = "ask" /\ pNode'[p] = pNode[p] + 1,
         \A c \in Process, i \in 1..Len(pList[p]) : c = pList[p][i] => Keeps(c)
  PROVE  Handed(p)'
<1> SUFFICES ASSUME NEW i \in 1..Len(pList[p])
             PROVE  /\ Behind(pList[p][i], cmd[p])'
                    /\ pc'[p] = "ask" /\ i >= pNode'[p] => Behind(pList[p][i], cmd[p] - 1)'
                    /\ pc'[p] = "listen" /\ i > pNode'[p] => Behind(pList[p][i], cmd[p] - 1)'
  BY DEF Handed
<1>1. PICK c \in Process, n \in Int : c = pList[p][i] /\ n = cmd[p]
  BY NowNumbers
<1>2. c = pList'[p][i] /\ n = cmd'[p] /\ n - 1 \in Int
  BY <1>1
<1>3. Keeps(c)
  BY <1>1
<1>4. /\ Behind(c, n)
      /\ pc[p] = "ask" /\ i >= pNode[p] => Behind(c, n - 1)
      /\ pc[p] = "listen" /\ i > pNode[p] => Behind(c, n - 1)
  BY <1>1 DEF Handed
<1>5. Behind(c, n)' /\ (Behind(c, n - 1) => Behind(c, n - 1)')
  BY <1>2, <1>3, <1>4 DEF Keeps
<1>6. pNode[p] \in Int /\ i \in Int
  BY NowNumbers
<1>7. /\ pc'[p] = "ask" /\ i >= pNode'[p] => Behind(c, n - 1)'
      /\ pc'[p] = "listen" /\ i > pNode'[p] => Behind(c, n - 1)'
  BY <1>4, <1>5, <1>6
<1> QED BY <1>2, <1>5, <1>7 DEF Behind

\* Start keeps the order.
LEMMA StartOrder == ASSUME TInv, InOrder, NEW p \in Process, Start(p) PROVE InOrder'
<1>1. /\ stdin[p] # << >> /\ stdin'[p] = Tail(stdin[p]) /\ pc[p] = "start" /\ pc'[p] = "read"
      /\ \A r \in Process : r # p => pc'[r] = pc[r] /\ stdin'[r] = stdin[r]
      /\ pList' = pList /\ cmd' = cmd /\ pNode' = pNode /\ made' = made
  BY StartDoes
<1>2. ASSUME NEW c \in Process
      PROVE  Keeps(c)
  <2>1. CASE c = p
    BY <1>1, <2>1, TakesOne DEF InOrder, Keeps
  <2>2. CASE c # p
    BY <1>1, <2>2 DEF Keeps, Behind
  <2> QED BY <2>1, <2>2
<1>3. ASSUME NEW r \in Process
      PROVE  Order(r)' /\ Handed(r)'
  <2>1. Handed(r)'
    <3>1. Handed(r) /\ (pc'[r] = pc[r] \/ pc'[r] \notin {"ask", "listen"})
      BY <1>1 DEF InOrder
    <3> QED BY <1>1, <1>2, <3>1, SameHanded
  <2>2. CASE r = p
    <3>1. /\ \A j, k \in 1..Len(stdin'[p]) : j < k => stdin'[p][j] < stdin'[p][k]
          /\ \A k \in 1..Len(stdin'[p]) : cmd'[p] < stdin'[p][k]
      BY <1>1, TakesFirst DEF InOrder
    <3>2. Order(p)'
      BY <1>1, <3>1 DEF Order, InOrder
    <3> QED BY <2>1, <2>2, <3>2
  <2>3. CASE r # p
    BY <1>1, <2>1, <2>3, SameOrder DEF InOrder
  <2> QED BY <2>2, <2>3
<1> QED BY <1>3 DEF InOrder

\* A step that changes no command and no pipe down.
LEMMA OtherOrder ==
  ASSUME TInv, InOrder, NEW p \in Process, Listen(p) \/ Fail(p)
  PROVE  InOrder'
<1>1. /\ stdin' = stdin /\ pList' = pList /\ cmd' = cmd /\ made' = made
      /\ \A r \in Process : \/ pc'[r] = pc[r] /\ pNode'[r] = pNode[r]
                            \/ pc'[r] \notin {"ask", "listen"}
                            \/ pc[r] = "listen" /\ pc'[r] = "ask" /\ pNode'[r] = pNode[r] + 1
  BY ListenDoes, FailDoes
<1>2. \A c \in Process : Keeps(c)
  BY <1>1 DEF Keeps, Behind
<1>3. ASSUME NEW r \in Process
      PROVE  Order(r)' /\ Handed(r)'
  <2>1. Order(r) /\ Handed(r)
    BY DEF InOrder
  <2> QED BY <1>1, <1>2, <2>1, SameOrder, SameHanded
<1> QED BY <1>3 DEF InOrder

\* p takes up a command: whatever it has handed down is earlier.
LEMMA PassDownOrder == ASSUME TInv, InOrder, NEW p \in Process, PassDown(p) PROVE InOrder'
<1>1. /\ stdin[p] # << >> /\ stdin'[p] = Tail(stdin[p]) /\ cmd'[p] = Head(stdin[p])
      /\ pList' = pList /\ made' = made
      /\ \A r \in Process : r # p => /\ pc'[r] = pc[r] /\ stdin'[r] = stdin[r]
                                     /\ cmd'[r] = cmd[r] /\ pNode'[r] = pNode[r]
  BY PassDownDoes
<1>2. ASSUME NEW c \in Process
      PROVE  Keeps(c)
  <2>1. CASE c = p
    BY <1>1, <2>1, TakesOne DEF InOrder, Keeps
  <2>2. CASE c # p
    BY <1>1, <2>2 DEF Keeps, Behind
  <2> QED BY <2>1, <2>2
<1>3. /\ \A j, k \in 1..Len(stdin'[p]) : j < k => stdin'[p][j] < stdin'[p][k]
      /\ \A k \in 1..Len(stdin'[p]) : cmd'[p] < stdin'[p][k]
      /\ cmd[p] < cmd'[p]
  BY <1>1, TakesFirst DEF InOrder
<1>n. cmd[p] \in Int /\ cmd'[p] \in Int
  <2>1. Head(stdin[p]) \in 1..Len(input) /\ Len(input) \in Nat /\ cmd[p] \in 0..Len(input)
    BY PassDownDoes, NowOne
  <2> QED BY <1>1, <2>1
<1>4. Order(p)'
  <2>1. /\ \A j, k \in 1..Len(pList[p]) : j < k => made[pList[p][j]] < made[pList[p][k]]
        /\ \A j \in 1..Len(pList[p]) : made[pList[p][j]] <= cmd[p] /\ made[pList[p][j]] \in Int
    BY NowNumbers DEF InOrder, Order
  <2>2. \A j \in 1..Len(pList[p]) : made[pList[p][j]] <= cmd'[p]
    BY <1>3, <1>n, <2>1
  <2> QED BY <1>1, <1>3, <2>1, <2>2 DEF Order
<1>5. Handed(p)'
  <2> SUFFICES ASSUME NEW i \in 1..Len(pList[p])
               PROVE  /\ cmd'[pList[p][i]] <= cmd'[p] - 1 /\ cmd'[pList[p][i]] <= cmd'[p]
                      /\ \A k \in 1..Len(stdin'[pList[p][i]]) :
                           /\ stdin'[pList[p][i]][k] <= cmd'[p] - 1
                           /\ stdin'[pList[p][i]][k] <= cmd'[p]
    BY <1>1 DEF Handed, Behind
  <2>1. PICK c \in Process : c = pList[p][i] /\ c # p
    BY NowOne DEF Forked
  <2>2. Behind(c, cmd[p])
    BY <2>1 DEF InOrder, Handed
  <2>3. cmd'[c] = cmd[c] /\ stdin'[c] = stdin[c]
    BY <1>1, <2>1
  <2>4. cmd[c] \in Int /\ \A k \in 1..Len(stdin[c]) : stdin[c][k] \in Int
    BY NowNumbers
  <2>5. /\ cmd[c] <= cmd'[p] - 1 /\ cmd[c] <= cmd'[p]
        /\ \A k \in 1..Len(stdin[c]) : stdin[c][k] <= cmd'[p] - 1 /\ stdin[c][k] <= cmd'[p]
    BY <1>3, <1>n, <2>2, <2>4 DEF Behind
  <2> QED BY <2>1, <2>3, <2>5
<1>6. ASSUME NEW r \in Process, r # p
      PROVE  Order(r)' /\ Handed(r)'
  <2>1. Order(r) /\ Handed(r)
    BY DEF InOrder
  <2> QED BY <1>1, <1>2, <1>6, <2>1, SameOrder, SameHanded
<1> QED BY <1>4, <1>5, <1>6 DEF InOrder

\* p hands its command to a child that has had only earlier ones.
LEMMA AskOrder == ASSUME TInv, InOrder, NEW p \in Process, Ask(p) PROVE InOrder'
<1> DEFINE i == pNode[p]  m == cmd[p]
<1>1. /\ pc[p] = "ask" /\ pc'[p] = "listen" /\ i \in 1..Len(pList[p])
      /\ \A r \in Process : r # p => pc'[r] = pc[r]
      /\ pList' = pList /\ cmd' = cmd /\ pNode' = pNode /\ made' = made
  BY AskDoes
<1>2. PICK c \in Process : c = pList[p][i] /\ c # p
  BY <1>1, NowOne DEF Forked
<1>3. stdin'[c] = Append(stdin[c], m) /\ \A r \in Process : r # c => stdin'[r] = stdin[r]
  BY <1>2, AskDoes
<1>4. stdin[c] \in Seq(1..Len(input)) /\ m \in 1..Len(input) /\ Len(input) \in Nat
  BY <1>1, NowOne DEF Working
<1> DEFINE l == Len(stdin[c])
<1>5. /\ Len(stdin'[c]) = l + 1 /\ stdin'[c][l + 1] = m /\ l \in Nat
      /\ \A k \in 1..l : stdin'[c][k] = stdin[c][k] /\ stdin[c][k] \in Int
  BY <1>3, <1>4, AppendProperties, NowNumbers
<1>6. m \in Int /\ Behind(c, m - 1) /\ cmd[c] \in Int
  <2>1. i \in Int /\ cmd[p] \in Int /\ cmd[c] \in Int
    BY NowNumbers
  <2>2. Behind(pList[p][i], cmd[p] - 1)
    BY <1>1, <2>1 DEF InOrder, Handed
  <2> QED BY <1>2, <2>1, <2>2
<1>7. Order(c)'
  <2>1. Order(c)
    BY DEF InOrder
  <2>2. \A k \in 1..l : stdin[c][k] < m
    BY <1>5, <1>6 DEF Behind
  <2>3. cmd[c] < m
    BY <1>6 DEF Behind
  <2>4. \A k \in 1..Len(stdin'[c]) : k \in 1..l \/ k = l + 1
    BY <1>5
  <2>5. \A j, k \in 1..Len(stdin'[c]) : j < k => stdin'[c][j] < stdin'[c][k]
    BY <1>5, <2>1, <2>2, <2>4 DEF Order
  <2>6. \A k \in 1..Len(stdin'[c]) : cmd'[c] < stdin'[c][k]
    BY <1>1, <1>5, <2>1, <2>3, <2>4 DEF Order
  <2> QED BY <1>1, <2>1, <2>5, <2>6 DEF Order
<1>8. \A d \in Process : d # c => Keeps(d)
  BY <1>1, <1>3 DEF Keeps, Behind
<1>9. ASSUME NEW r \in Process, r # p
      PROVE  Handed(r)'
  <2>1. Handed(r)
    BY DEF InOrder
  <2>2. ASSUME NEW j \in 1..Len(pList[r])
        PROVE  pList[r][j] # c
    <3>1. OneParent(r, p)
      BY NowOne
    <3> QED BY <1>1, <1>2, <1>9, <3>1 DEF OneParent
  <2> QED BY <1>1, <1>8, <1>9, <2>1, <2>2, SameHanded
<1>a. Handed(p)'
  <2> SUFFICES ASSUME NEW j \in 1..Len(pList[p])
               PROVE  /\ cmd'[pList[p][j]] <= m
                      /\ \A k \in 1..Len(stdin'[pList[p][j]]) : stdin'[pList[p][j]][k] <= m
                      /\ j > i => /\ cmd'[pList[p][j]] <= m - 1
                                  /\ \A k \in 1..Len(stdin'[pList[p][j]]) :
                                       stdin'[pList[p][j]][k] <= m - 1
    BY <1>1 DEF Handed, Behind
  <2>0. j \in Int /\ i \in Int
    BY NowNumbers
  <2>1. CASE j = i
    <3>1. cmd'[c] <= m
      BY <1>1, <1>6 DEF Behind
    <3>2. ASSUME NEW k \in 1..Len(stdin'[c])
          PROVE  stdin'[c][k] <= m
      <4>1. CASE k \in 1..l
        <5>1. stdin[c][k] <= m - 1 /\ stdin[c][k] \in Int /\ stdin'[c][k] = stdin[c][k]
          BY <1>5, <1>6, <4>1 DEF Behind
        <5> QED BY <1>6, <5>1
      <4>2. CASE k = l + 1
        BY <1>5, <1>6, <4>2
      <4> QED BY <1>5, <4>1, <4>2
    <3> QED BY <1>2, <2>0, <2>1, <3>1, <3>2
  <2>2. CASE j # i
    <3>1. PICK d \in Process : d = pList[p][j]
      BY NowNumbers
    <3>2. d # c
      <4>1. OneParent(p, p)
        BY NowOne
      <4> QED BY <1>1, <1>2, <2>2, <3>1, <4>1 DEF OneParent
    <3>3. Behind(d, m) /\ (j > i => Behind(d, m - 1))
      BY <1>1, <2>0, <3>1 DEF InOrder, Handed
    <3>4. cmd'[d] = cmd[d] /\ stdin'[d] = stdin[d]
      BY <1>1, <1>3, <3>2
    <3> QED BY <3>1, <3>3, <3>4 DEF Behind
  <2> QED BY <2>1, <2>2
<1>b. ASSUME NEW r \in Process, r # c
      PROVE  Order(r)'
  BY <1>1, <1>3, <1>b, SameOrder DEF InOrder
<1> QED BY <1>7, <1>9, <1>a, <1>b DEF InOrder

\* p carries a command out: the new friend comes last in its list.
LEMMA MeetOrder ==
  ASSUME TInv, InOrder, NEW p \in Process, NEW q \in Process, Meet(p, q)
  PROVE  InOrder'
<1>1. /\ p # q /\ pc[p] = "read" /\ pc'[p] = "read" /\ pc[q] = None /\ pc'[q] = "start"
      /\ pNode' = pNode
      /\ \A r \in Process : r # q => pc'[r] = pc[r] /\ made'[r] = made[r]
      /\ \A r \in Process : r # p => pList'[r] = pList[r] /\ cmd'[r] = cmd[r]
      /\ \A r \in Process : r # p /\ r # q => stdin'[r] = stdin[r]
  BY MeetLeaves
<1>2. /\ stdin[p] # << >> /\ stdin'[p] = Tail(stdin[p]) /\ cmd'[p] = Head(stdin[p])
      /\ Head(stdin[p]) \in 1..Len(input) /\ Len(input) \in Nat /\ cmd[p] \in 0..Len(input)
  BY MeetDoes, NowOne
<1>3. PICK h \in 1..Len(input) : h = Head(stdin[p])
  BY <1>2
<1>4. /\ stdin'[q] = <<h>> /\ made'[q] = h /\ cmd'[p] = h /\ h \in Int /\ h >= 1 /\ cmd[p] \in Int
      /\ pList'[p] = Append(pList[p], q)
  <2>1. stdin'[q] = <<h>> /\ made'[q] = h
    BY <1>3, MeetDoes
  <2>2. cmd'[p] = h
    BY <1>3, MeetDoes
  <2>3. pList'[p] = Append(pList[p], q)
    BY MeetDoes
  <2>4. h \in Int /\ h >= 1 /\ cmd[p] \in Int
    BY <1>2
  <2> QED BY <2>1, <2>2, <2>3, <2>4
<1>5. /\ \A j, k \in 1..Len(stdin'[p]) : j < k => stdin'[p][j] < stdin'[p][k]
      /\ \A k \in 1..Len(stdin'[p]) : h < stdin'[p][k]
      /\ cmd[p] < h
  BY <1>2, <1>3, TakesFirst DEF InOrder
<1>6. pList[q] = << >> /\ cmd[q] = 0
  BY <1>1, NowOne DEF Working
<1> DEFINE l == Len(pList[p])
<1>7. /\ Len(pList'[p]) = l + 1 /\ pList'[p][l + 1] = q /\ l \in Nat
      /\ \A i \in 1..l : pList'[p][i] = pList[p][i]
  <2>1. pList[p] \in Seq(Process)
    BY NowOne
  <2> QED BY <1>4, <2>1, AppendProperties, NowNumbers
<1>8. \A i \in 1..Len(pList'[p]) : i \in 1..l \/ i = l + 1
  BY <1>7
<1>9. ASSUME NEW r \in Process, NEW i \in 1..Len(pList[r])
      PROVE  pList[r][i] \in Process /\ pList[r][i] # q /\ pList[r][i] # r
  BY <1>1, <1>9, NowOne DEF Forked
<1>a. ASSUME NEW d \in Process, d # q
      PROVE  Keeps(d)
  <2>1. CASE d = p
    BY <1>2, <2>1, TakesOne DEF InOrder, Keeps
  <2>2. CASE d # p
    BY <1>1, <1>a, <2>2 DEF Keeps, Behind
  <2> QED BY <2>1, <2>2
<1>b. Order(p)'
  <2>1. /\ \A j, k \in 1..l : j < k => made[pList[p][j]] < made[pList[p][k]]
        /\ \A j \in 1..l : made[pList[p][j]] <= cmd[p] /\ made[pList[p][j]] \in Int
    BY NowNumbers DEF InOrder, Order
  <2>2. \A j \in 1..l : made'[pList'[p][j]] = made[pList[p][j]] /\ made[pList[p][j]] < h
    BY <1>1, <1>4, <1>5, <1>7, <1>9, <2>1
  <2>3. made'[pList'[p][l + 1]] = h
    BY <1>4, <1>7
  <2>4. \A j, k \in 1..Len(pList'[p]) : j < k => made'[pList'[p][j]] < made'[pList'[p][k]]
    <3> SUFFICES ASSUME NEW j \in 1..Len(pList'[p]), NEW k \in 1..Len(pList'[p]), j < k
                 PROVE  made'[pList'[p][j]] < made'[pList'[p][k]]
      OBVIOUS
    <3>1. j \in 1..l
      BY <1>7
    <3>2. CASE k = l + 1
      BY <2>2, <2>3, <3>1, <3>2
    <3>3. CASE k \in 1..l
      BY <2>1, <2>2, <3>1, <3>3
    <3> QED BY <1>8, <3>2, <3>3
  <2>5. \A j \in 1..Len(pList'[p]) : made'[pList'[p][j]] <= cmd'[p]
    BY SMTT(30), <1>4, <1>8, <2>1, <2>2, <2>3
  <2> QED BY <1>4, <1>5, <2>4, <2>5 DEF Order
<1>c. Order(q)' /\ Handed(q)'
  <2>1. Len(pList'[q]) = 0 /\ cmd'[q] = 0
    BY <1>1, <1>6
  <2>2. Len(stdin'[q]) = 1 /\ stdin'[q][1] = h
    BY <1>4
  <2>3. \A k \in 1..Len(stdin'[q]) : k = 1
    BY <2>2
  <2> QED BY <1>4, <2>1, <2>2, <2>3 DEF Order, Handed
<1>d. Handed(p)'
  <2> SUFFICES ASSUME NEW i \in 1..Len(pList'[p])
               PROVE  /\ cmd'[pList'[p][i]] <= h
                      /\ \A k \in 1..Len(stdin'[pList'[p][i]]) : stdin'[pList'[p][i]][k] <= h
    BY <1>1, <1>4 DEF Handed, Behind
  <2>1. CASE i = l + 1
    <3>1. cmd'[q] = 0 /\ Len(stdin'[q]) = 1 /\ stdin'[q][1] = h
      BY <1>1, <1>4, <1>6
    <3> QED BY <1>4, <1>7, <2>1, <3>1
  <2>2. CASE i \in 1..l
    <3>1. PICK d \in Process : d = pList[p][i] /\ d # q /\ d # p
      BY <1>9, <2>2
    <3>2. Behind(d, cmd[p])
      BY <2>2, <3>1 DEF InOrder, Handed
    <3>3. cmd'[d] = cmd[d] /\ stdin'[d] = stdin[d]
      BY <1>1, <3>1
    <3>4. cmd[d] \in Int /\ \A k \in 1..Len(stdin[d]) : stdin[d][k] \in Int
      BY NowNumbers
    <3>5. cmd[d] <= h /\ \A k \in 1..Len(stdin[d]) : stdin[d][k] <= h
      BY <1>4, <1>5, <3>2, <3>4 DEF Behind
    <3> QED BY <1>7, <2>2, <3>1, <3>3, <3>5
  <2> QED BY <1>8, <2>1, <2>2
<1>e. ASSUME NEW r \in Process, r # p, r # q
      PROVE  Order(r)' /\ Handed(r)'
  <2>1. Order(r) /\ Handed(r)
    BY DEF InOrder
  <2>2. pList'[r] = pList[r] /\ stdin'[r] = stdin[r] /\ cmd'[r] = cmd[r]
        /\ pc'[r] = pc[r] /\ pNode'[r] = pNode[r]
    BY <1>1, <1>e
  <2>3. \A i \in 1..Len(pList[r]) : made'[pList[r][i]] = made[pList[r][i]]
    BY <1>1, <1>9
  <2>4. \A d \in Process, i \in 1..Len(pList[r]) : d = pList[r][i] => Keeps(d)
    BY <1>9, <1>a
  <2>5. Order(r)'
    BY <2>1, <2>2, <2>3, SameOrder
  <2>6. Handed(r)'
    BY <2>1, <2>2, <2>4, SameHanded
  <2> QED BY <2>5, <2>6
<1> QED BY <1>b, <1>c, <1>d, <1>e DEF InOrder

\* Every step keeps the order.
LEMMA NextOrder == TInv /\ InOrder /\ [Next]_vars => InOrder'
<1> SUFFICES ASSUME TInv, InOrder, [Next]_vars
             PROVE  InOrder'
  OBVIOUS
<1>1. CASE UNCHANGED vars
  BY ZenonT(40), <1>1 DEF vars, InOrder, Order, Handed, Behind
<1>2. ASSUME NEW p \in Process, Step(p)
      PROVE  InOrder'
  BY <1>2, StartOrder, MeetOrder, PassDownOrder, AskOrder, OtherOrder DEF Step
<1> QED BY <1>1, <1>2 DEF Next

\* Initially the commands are in order, at the root.
LEMMA InitOrder == Init => InOrder
<1> SUFFICES ASSUME Init, NEW p \in Process
             PROVE  Order(p) /\ Handed(p)
  BY DEF InOrder
<1>1. Len(input) \in Nat
  BY InputIsCommands DEF Init
<1>2. pList[p] = << >> /\ cmd[p] = 0
  BY DEF Init
<1>3. CASE p = Root
  <2>1. stdin[p] = [k \in 1..Len(input) |-> k]
    BY <1>3 DEF Init
  <2>2. Len(stdin[p]) = Len(input) /\ \A k \in 1..Len(input) : stdin[p][k] = k
    BY <1>1, <2>1
  <2> QED BY <1>1, <1>2, <2>2 DEF Order, Handed
<1>4. CASE p # Root
  <2>1. stdin[p] = << >>
    BY <1>4 DEF Init
  <2> QED BY <1>2, <2>1 DEF Order, Handed
<1> QED BY <1>3, <1>4

\* CommandsInOrder of the runs: however far a parent is ahead of its children,
\* every friend carries commands out, and hands them down, in the order given.
THEOREM CommandsStayInOrder == Spec => []CommandsInOrder
<1>1. TInv /\ InOrder => CommandsInOrder
  <2> SUFFICES ASSUME TInv, InOrder, NEW p \in Process
               PROVE  LET met == [k \in 1..Len(pList[p]) |-> made[pList[p][k]]] IN
                      /\ \A j, k \in DOMAIN met : j < k => met[j] < met[k]
                      /\ \A j, k \in DOMAIN stdin[p] : j < k => stdin[p][j] < stdin[p][k]
                      /\ \A j \in DOMAIN met, k \in DOMAIN stdin[p] :
                           met[j] <= cmd[p] /\ cmd[p] < stdin[p][k]
    BY DEF CommandsInOrder, Met
  <2>1. DOMAIN stdin[p] = 1..Len(stdin[p])
    BY NowOne, LenProperties
  <2> QED BY <2>1 DEF InOrder, Order
<1> QED BY <1>1, InitOrder, NextOrder, TreeInvariance, PTL DEF Spec
=============================================================================
