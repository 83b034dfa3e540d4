------------------------ MODULE FriendFamilyProofs ------------------------
(***************************************************************************)
(* Proof that the processes of the friend tree implement Family, for any   *)
(* list of commands in which a name that may have been given twice is no   *)
(* longer asked for.  Without that, two friends of one name may stand in   *)
(* two branches, and an answer passed on early lets a command reach both.  *)
(***************************************************************************)
EXTENDS FriendTreeProofs

\* Who a process is, and whose child.
Kin(p) ==
  p # Root /\ pc[p] # None =>
    /\ made[p] \in 1..Len(input) /\ name[p] = input[made[p]].child
    /\ \E r \in Process : \E k \in 1..Len(pList[r]) : pList[r][k] = p

Called(p) == \A k \in 1..Len(pList[p]) : input[made[pList[p][k]]].parent = name[p]

\* What p hears of was given after the command that made p, and what p hands
\* down after those that made its children.
Later(p) ==
  /\ \A k \in 1..Len(pList[p]) : made[p] < made[pList[p][k]]
  /\ pc[p] = "start" => stdin[p][1] = made[p]
  /\ pc[p] # "start" => \A k \in 1..Len(stdin[p]) : made[p] < stdin[p][k]
  /\ pc[p] \in {"ask", "listen"} => \A k \in 1..Len(pList[p]) : made[pList[p][k]] < cmd[p]

Single == \A p, q \in Process : pc[p] # None /\ pc[q] # None /\ made[p] = made[q] => p = q

FInv ==
  /\ pc[Root] # None /\ made[Root] = 0 /\ name[Root] = Not_Tako
  /\ \A p \in Process : Kin(p) /\ Called(p) /\ Later(p)
  /\ Single

LEMMA InitFamily == Init => FInv
<1> SUFFICES ASSUME Init PROVE FInv
  OBVIOUS
<1>1. Root \in Process
  BY RootIsProcess
<1>2. pc[Root] # None /\ made[Root] = 0 /\ name[Root] = Not_Tako
  BY <1>1 DEF Init, None
<1>3. \A p \in Process : p # Root => pc[p] = None
  BY DEF Init
<1>4. ASSUME NEW p \in Process
      PROVE  Kin(p) /\ Called(p) /\ Later(p)
  <2>1. Kin(p)
    BY <1>3 DEF Kin
  <2>2. pList[p] = << >> /\ made[p] = 0 /\ pc[p] \in {"read", None}
    BY DEF Init
  <2>3. Called(p)
    BY <2>2 DEF Called
  <2>4. \A k \in 1..Len(stdin[p]) : 0 < stdin[p][k]
    <3>1. CASE p = Root
      <4>1. stdin[p] = [k \in 1..Len(input) |-> k]
        BY <3>1 DEF Init
      <4>2. Len(input) \in Nat
        BY InputIsCommands DEF Init
      <4> QED BY <4>1, <4>2
    <3>2. CASE p # Root
      BY <3>2 DEF Init
    <3> QED BY <3>1, <3>2
  <2>5. Later(p)
    BY <2>2, <2>4 DEF Later, None
  <2> QED BY <2>1, <2>3, <2>5
<1>5. Single
  BY <1>3 DEF Single
<1> QED BY <1>2, <1>4, <1>5 DEF FInv

\* The children of p, and what is in its pipe, as processes and numbers.
LEMMA NowKin ==
  ASSUME TInv, InOrder, FInv, NEW p \in Process
  PROVE  /\ made[p] \in Int /\ cmd[p] \in Int /\ Len(pList[p]) \in Nat /\ Len(stdin[p]) \in Nat
         /\ \A k \in 1..Len(pList[p]) : /\ pList[p][k] \in Process /\ made[pList[p][k]] \in Int
                                        /\ pList[p][k] # Root /\ pList[p][k] # p
                                        /\ pc[pList[p][k]] # None
         /\ \A k \in 1..Len(stdin[p]) : stdin[p][k] \in Int
         /\ Kin(p) /\ Called(p) /\ Later(p) /\ Order(p)
<1>1. made[p] \in 0..Len(input) /\ Len(input) \in Nat
  BY NowOne
<1>2. Forked(p)
  BY NowOne
<1> QED BY <1>1, <1>2, NowNumbers DEF Forked, FInv, InOrder

\* Steps that make no process.
LEMMA SameKin ==
  ASSUME TInv, FInv, UNCHANGED <<input, name, pList, made>>,
         \A p \in Process : pc'[p] = None <=> pc[p] = None
  PROVE  /\ \A p \in Process : Kin(p)' /\ Called(p)'
         /\ Single'
         /\ pc'[Root] # None /\ made'[Root] = 0 /\ name'[Root] = Not_Tako
BY RootIsProcess DEF FInv, Kin, Called, Single

LEMMA SameLater ==
  ASSUME NEW p, Later(p), pList' = pList, made' = made, stdin'[p] = stdin[p], cmd'[p] = cmd[p],
         pc'[p] = "start" <=> pc[p] = "start",
         pc'[p] \in {"ask", "listen"} => pc[p] \in {"ask", "listen"}
  PROVE  Later(p)'
BY DEF Later

LEMMA StartFamily ==
  ASSUME TInv, InOrder, FInv, NEW p \in Process, Start(p)
  PROVE  FInv'
<1>1. /\ pc[p] = "start" /\ pc'[p] = "read" /\ stdin[p] # << >> /\ stdin'[p] = Tail(stdin[p])
      /\ \A r \in Process : r # p => pc'[r] = pc[r] /\ stdin'[r] = stdin[r]
      /\ UNCHANGED <<input, name, pList, stdout, cmd, pNode, middle, made>>
  BY StartDoes
<1>2. \A r \in Process : pc'[r] = None <=> pc[r] = None
  BY <1>1 DEF None
<1>3. ASSUME NEW r \in Process, r # p
      PROVE  Later(r)'
  BY <1>1, <1>3, SameLater DEF FInv
<1>4. Later(p)'
  <2>1. stdin[p] \in Seq(1..Len(input)) /\ Len(input) \in Nat
    BY NowOne
  <2>2. /\ 1 \in 1..Len(stdin[p]) /\ Len(Tail(stdin[p])) \in Nat
        /\ \A k \in 1..Len(Tail(stdin[p])) :
             k \in Int /\ k + 1 \in 1..Len(stdin[p]) /\ Tail(stdin[p])[k] = stdin[p][k + 1]
    BY <1>1, <2>1, OneLess
  <2>3. \A j, k \in 1..Len(stdin[p]) : j < k => stdin[p][j] < stdin[p][k]
    BY NowKin DEF Order
  <2>4. stdin[p][1] = made[p] /\ Later(p)
    BY <1>1 DEF FInv, Later
  <2>5. ASSUME NEW k \in 1..Len(stdin'[p])
        PROVE  made[p] < stdin'[p][k]
    <3>1. k \in Int /\ k >= 1 /\ k + 1 \in 1..Len(stdin[p]) /\ stdin'[p][k] = stdin[p][k + 1]
      BY <1>1, <2>2
    <3>2. 1 < k + 1
      BY <3>1
    <3> QED BY <2>2, <2>3, <2>4, <3>1, <3>2
  <2> QED BY <1>1, <2>4, <2>5 DEF Later
<1>5. /\ \A r \in Process : Kin(r)' /\ Called(r)'
      /\ Single' /\ pc'[Root] # None /\ made'[Root] = 0 /\ name'[Root] = Not_Tako
  BY <1>1, <1>2, SameKin
<1>6. \A r \in Process : Later(r)'
  BY <1>3, <1>4
<1> QED BY <1>5, <1>6 DEF FInv

LEMMA OtherFamily ==
  ASSUME TInv, FInv, NEW p \in Process, Listen(p) \/ Fail(p)
  PROVE  FInv'
<1>1. /\ pc[p] \in {"ask", "listen"} /\ pc'[p] \in {"ask", "read"}
      /\ \A r \in Process : r # p => pc'[r] = pc[r]
      /\ UNCHANGED <<input, name, pList, stdin, cmd, made>>
  BY ListenDoes, FailDoes
<1>2. \A r \in Process : pc'[r] = None <=> pc[r] = None
  BY <1>1 DEF None
<1>3. ASSUME NEW r \in Process
      PROVE  Later(r)'
  <2>1. Later(r)
    BY DEF FInv
  <2> QED BY <1>1, <2>1, SameLater
<1>4. /\ \A r \in Process : Kin(r)' /\ Called(r)'
      /\ Single' /\ pc'[Root] # None /\ made'[Root] = 0 /\ name'[Root] = Not_Tako
  BY <1>1, <1>2, SameKin
<1> QED BY <1>3, <1>4 DEF FInv

LEMMA PassDownFamily ==
  ASSUME TInv, InOrder, FInv, NEW p \in Process, PassDown(p)
  PROVE  FInv'
<1>1. /\ pc[p] = "read" /\ pc'[p] = "ask" /\ stdin[p] # << >>
      /\ \A r \in Process : r # p => pc'[r] = pc[r] /\ stdin'[r] = stdin[r] /\ cmd'[r] = cmd[r]
      /\ stdin'[p] = Tail(stdin[p]) /\ cmd'[p] = Head(stdin[p])
      /\ UNCHANGED <<input, name, pList, stdout, made>>
  BY PassDownDoes
<1>2. \A r \in Process : pc'[r] = None <=> pc[r] = None
  BY <1>1 DEF None
<1>3. ASSUME NEW r \in Process, r # p
      PROVE  Later(r)'
  BY <1>1, <1>3, SameLater DEF FInv
<1>4. Later(p)'
  <2>1. stdin[p] \in Seq(1..Len(input)) /\ Len(input) \in Nat
    BY NowOne
  <2>2. /\ Head(stdin[p]) = stdin[p][1] /\ 1 \in 1..Len(stdin[p]) /\ Len(Tail(stdin[p])) \in Nat
        /\ \A k \in 1..Len(Tail(stdin[p])) :
             k \in Int /\ k + 1 \in 1..Len(stdin[p]) /\ Tail(stdin[p])[k] = stdin[p][k + 1]
    BY <1>1, <2>1, OneLess
  <2>3. Order(p) /\ Later(p)
    BY NowKin
  <2>4. \A k \in 1..Len(stdin'[p]) : made[p] < stdin'[p][k]
    BY <1>1, <2>2, <2>3 DEF Later
  <2>5. \A k \in 1..Len(pList[p]) : made[pList[p][k]] < cmd'[p]
    <3>1. cmd[p] < cmd'[p] /\ cmd[p] \in Int /\ cmd'[p] \in Int
      BY <1>1, <2>2, <2>3, NowKin DEF Order
    <3>2. \A k \in 1..Len(pList[p]) : made[pList[p][k]] \in Int /\ made[pList[p][k]] <= cmd[p]
      BY <2>3, NowKin DEF Order
    <3> QED BY <3>1, <3>2
  <2> QED BY <1>1, <2>3, <2>4, <2>5 DEF Later
<1>5. /\ \A r \in Process : Kin(r)' /\ Called(r)'
      /\ Single' /\ pc'[Root] # None /\ made'[Root] = 0 /\ name'[Root] = Not_Tako
  BY <1>1, <1>2, SameKin
<1>6. \A r \in Process : Later(r)'
  BY <1>3, <1>4
<1> QED BY <1>5, <1>6 DEF FInv

LEMMA AskFamily ==
  ASSUME TInv, InOrder, FInv, NEW p \in Process, Ask(p)
  PROVE  FInv'
<1> DEFINE child == pList[p][pNode[p]]
<1>0. PICK c \in Process : c = child
  BY AskDoes
<1>1. /\ pc[p] = "ask" /\ pc'[p] = "listen"
      /\ pNode[p] \in 1..Len(pList[p])
      /\ \A r \in Process : r # p => pc'[r] = pc[r]
      /\ stdin'[c] = Append(stdin[c], cmd[p])
      /\ \A r \in Process : r # c => stdin'[r] = stdin[r]
      /\ UNCHANGED <<input, name, pList, stdout, cmd, pNode, middle, made>>
  BY <1>0, AskDoes
<1>2. c # p /\ made[c] < cmd[p] /\ pc'[c] = pc[c]
  BY <1>0, <1>1, NowKin DEF Later
<1> HIDE DEF child
<1>3. \A r \in Process : pc'[r] = None <=> pc[r] = None
  BY <1>1 DEF None
<1>4. ASSUME NEW r \in Process, r # c
      PROVE  Later(r)'
  <2>1. Later(r)
    BY DEF FInv
  <2>2. pc'[r] = "start" <=> pc[r] = "start"
    BY <1>1
  <2>3. pc'[r] \in {"ask", "listen"} => pc[r] \in {"ask", "listen"}
    BY <1>1
  <2> QED BY <1>1, <1>4, <2>1, <2>2, <2>3, SameLater
<1>5. Later(c)'
  <2>1. Later(c) /\ Len(stdin[c]) \in Nat
    BY <1>1, NowKin
  <2>2. stdin[c] \in Seq(1..Len(input)) /\ cmd[p] \in 0..Len(input)
    BY <1>1, NowOne
  <2>3. stdin[c] \in Seq(0..Len(input))
    BY <2>2, SeqMonotonic
  <2>4. /\ Len(stdin'[c]) = Len(stdin[c]) + 1
        /\ \A k \in 1..Len(stdin[c]) : stdin'[c][k] = stdin[c][k]
        /\ stdin'[c][Len(stdin[c]) + 1] = cmd[p]
    BY <1>1, <2>2, <2>3, AppendProperties
  <2>5. pc'[c] = "start" => stdin'[c][1] = made[c]
    <3>1. pc[c] = "start" => 1 \in 1..Len(stdin[c])
      <4>1. pc[c] = "start" => stdin[c] # << >>
        BY <1>1, NowOne DEF Working
      <4> QED BY <2>1, <2>2, <4>1, EmptySeq, LenProperties
    <3> QED BY <1>2, <2>1, <2>4, <3>1 DEF Later
  <2>6. pc'[c] # "start" => \A k \in 1..Len(stdin'[c]) : made[c] < stdin'[c][k]
    <3>1. \A k \in 1..Len(stdin'[c]) : k \in 1..Len(stdin[c]) \/ k = Len(stdin[c]) + 1
      BY <2>1, <2>4
    <3> QED BY <1>2, <2>1, <2>4, <3>1 DEF Later
  <2> QED BY <1>1, <1>2, <2>1, <2>5, <2>6 DEF Later
<1>6. /\ \A r \in Process : Kin(r)' /\ Called(r)'
      /\ Single' /\ pc'[Root] # None /\ made'[Root] = 0 /\ name'[Root] = Not_Tako
  BY <1>1, <1>3, SameKin
<1>7. \A r \in Process : Later(r)'
  BY <1>4, <1>5
<1> QED BY <1>6, <1>7 DEF FInv

-----------------------------------------------------------------------------
(* Meeting somebody.                                                       *)

\* A command that has made somebody was for a friend made before, or Not_Tako.
LEMMA WasExpected ==
  ASSUME TInv, InOrder, FInv, NEW u \in Process, u # Root, pc[u] # None
  PROVE  made[u] \in 1..Len(input) /\ Expected(input, made[u])
<1>1. /\ made[u] \in 1..Len(input)
      /\ \E s \in Process : \E k \in 1..Len(pList[s]) : pList[s][k] = u
  BY DEF FInv, Kin
<1>2. PICK s \in Process : \E k \in 1..Len(pList[s]) : pList[s][k] = u
  BY <1>1
<1>3. PICK k \in 1..Len(pList[s]) : pList[s][k] = u
  BY <1>2
<1>4. input[made[u]].parent = name[s] /\ made[s] < made[u]
  BY <1>3, NowKin DEF Called, Later
<1>5. pc[s] # None
  <2>1. pc[s] = None => pList[s] = << >>
    BY NowOne DEF Working
  <2>2. pList[s] # << >>
    BY <1>3
  <2> QED BY <2>1, <2>2
<1>6. CASE s = Root
  BY <1>1, <1>4, <1>6 DEF FInv, Expected
<1>7. CASE s # Root
  <2>1. made[s] \in 1..Len(input) /\ name[s] = input[made[s]].child
    BY <1>5, <1>7 DEF FInv, Kin
  <2> QED BY <1>1, <1>4, <2>1 DEF Expected
<1> QED BY <1>6, <1>7

\* The command at hand has made nobody: whoever it had made would be a child
\* of a friend of the same name, and of two such friends one would have been
\* made before the other, by commands that both come before this one.
LEMMA OnlyOnce ==
  ASSUME AsksForOne(input), TInv, InOrder, FInv, NEW p \in Process, NEW q \in Process, Meet(p, q)
  PROVE  \A r \in Process : pc[r] # None => made[r] # Head(stdin[p])
<1> DEFINE i == Head(stdin[p])
<1> SUFFICES ASSUME NEW r \in Process, pc[r] # None, made[r] = i
             PROVE  FALSE
  OBVIOUS
<1>1. /\ stdin[p] # << >> /\ i \in 1..Len(input) /\ pc[p] = "read" /\ input[i].parent = name[p]
      /\ Len(input) \in Nat
  <2>1. input[i].parent = name[p]
    BY DEF Meet, Named
  <2> QED BY <2>1, MeetDoes, MeetLeaves, NowOne
<1>2. i = stdin[p][1] /\ 1 \in 1..Len(stdin[p])
  BY <1>1, NowOne, OneLess
<1> HIDE DEF i
<1>3. r # Root /\ Kin(r)
  BY <1>1 DEF FInv
<1>4a. PICK s \in Process : \E k \in 1..Len(pList[s]) : pList[s][k] = r
  BY <1>3 DEF Kin
<1>4. PICK k \in 1..Len(pList[s]) : pList[s][k] = r
  BY <1>4a
<1>5. /\ pc[s] # None /\ input[i].parent = name[s] /\ made[s] < i /\ made[s] \in Int
  <2>1. Len(pList[s]) \in Nat /\ Called(s) /\ Later(s) /\ made[s] \in Int
    BY NowKin
  <2>2. pc[s] # None
    <3>1. pc[s] = None => pList[s] = << >>
      BY NowOne DEF Working
    <3>2. pList[s] # << >>
      BY <1>4
    <3> QED BY <3>1, <3>2
  <2> QED BY <1>4, <2>1, <2>2 DEF Called, Later
<1>6. made[p] < i /\ made[p] \in Int
  BY <1>1, <1>2, NowKin DEF Later
<1>7. s # p
  <2> SUFFICES ASSUME s = p PROVE FALSE
    OBVIOUS
  <2>1. made[pList[p][k]] <= cmd[p] /\ cmd[p] < stdin[p][1]
    BY <1>2, <1>4, NowKin DEF Order
  <2> QED BY <1>1, <1>2, <1>4, <2>1, NowKin
<1>8. ASSUME NEW u \in Process, u # Root, pc[u] # None
      PROVE  made[u] \in 1..Len(input) /\ name[u] = input[made[u]].child /\ name[u] # Not_Tako
  <2>1. made[u] \in 1..Len(input) /\ name[u] = input[made[u]].child
    BY <1>8 DEF FInv, Kin
  <2>2. input[made[u]] \in Command
    <3>1. input \in Inputs
      BY DEF TInv, TypeOK
    <3> QED BY <2>1, <3>1, InputIsCommands
  <2> QED BY <2>1, <2>2 DEF Command
<1>9. pc[p] # None /\ name[Root] = Not_Tako /\ name[p] = name[s]
  BY <1>1, <1>5 DEF FInv, None
<1>10. p # Root /\ s # Root
  BY <1>5, <1>7, <1>8, <1>9
<1>11. /\ made[p] \in 1..Len(input) /\ made[s] \in 1..Len(input) /\ made[p] # made[s]
       /\ input[made[p]].child = input[made[s]].child /\ input[i].parent = input[made[p]].child
       /\ Expected(input, made[p]) /\ Expected(input, made[s])
  BY <1>1, <1>5, <1>7, <1>8, <1>9, <1>10, WasExpected DEF FInv, Single
<1>12. \A j, k1, m \in 1..Len(input) :
         /\ j < k1 /\ k1 < m /\ input[j].child = input[k1].child
         /\ Expected(input, j) /\ Expected(input, k1)
         => input[m].parent # input[k1].child
  <2>1. input \in Inputs
    BY DEF TInv, TypeOK
  <2> QED BY <2>1 DEF AsksForOne
<1>13. CASE made[p] < made[s]
  BY <1>1, <1>5, <1>11, <1>12, <1>13
<1>14. CASE made[s] < made[p]
  BY <1>1, <1>6, <1>11, <1>12, <1>14
<1> QED BY <1>5, <1>6, <1>11, <1>13, <1>14

\* What Meet does to a new friend and to the one who meets him.
LEMMA MeetPair ==
  ASSUME TInv, InOrder, FInv, NEW p \in Process, NEW q \in Process, Meet(p, q)
  PROVE  /\ pList[q] = << >> /\ pList'[q] = << >>
         /\ \A r \in Process : \A k \in 1..Len(pList[r]) :
              pList[r][k] # q /\ made'[pList[r][k]] = made[pList[r][k]]
         /\ Len(pList'[p]) = Len(pList[p]) + 1 /\ pList'[p][Len(pList[p]) + 1] = q
         /\ \A k \in 1..Len(pList[p]) : pList'[p][k] = pList[p][k]
         /\ Len(pList[p]) \in Nat
<1>1. /\ p # q /\ q # Root /\ pc[q] = None
      /\ \A r \in Process : r # q => made'[r] = made[r]
      /\ \A r \in Process : r # p => pList'[r] = pList[r]
  BY MeetLeaves
<1>2. pList'[p] = Append(pList[p], q) /\ pList[p] \in Seq(Process) /\ Len(pList[p]) \in Nat
  BY MeetDoes, NowOne
<1>3. pList[q] = << >>
  BY <1>1, NowOne DEF Working
<1>4. \A r \in Process : \A k \in 1..Len(pList[r]) : pList[r][k] # q /\ pList[r][k] \in Process
  BY <1>1, NowKin
<1>5. /\ Len(pList'[p]) = Len(pList[p]) + 1 /\ pList'[p][Len(pList[p]) + 1] = q
      /\ \A k \in 1..Len(pList[p]) : pList'[p][k] = pList[p][k]
  BY <1>2, AppendProperties
<1> QED BY <1>1, <1>2, <1>3, <1>4, <1>5

LEMMA MeetFamily ==
  ASSUME AsksForOne(input), TInv, InOrder, FInv, NEW p \in Process, NEW q \in Process, Meet(p, q)
  PROVE  FInv'
<1> DEFINE i == Head(stdin[p])
<1>1. /\ stdin[p] # << >> /\ i \in 1..Len(input)
      /\ name'[q] = input[i].child /\ made'[q] = i
      /\ stdin'[p] = Tail(stdin[p]) /\ stdin'[q] = <<i>>
      /\ cmd'[p] = i /\ Len(input) \in Nat
  BY MeetDoes, NowOne
<1>2. /\ p # q /\ q # Root /\ pc[q] = None /\ pc[p] = "read" /\ pc'[q] = "start"
      /\ \A r \in Process : r # q => pc'[r] = pc[r] /\ name'[r] = name[r] /\ made'[r] = made[r]
      /\ \A r \in Process : r # p => pList'[r] = pList[r] /\ cmd'[r] = cmd[r]
      /\ \A r \in Process : r # p /\ r # q => stdin'[r] = stdin[r]
      /\ input' = input
  BY MeetLeaves
<1>3. input[i].parent = name[p]
  BY DEF Meet, Named
<1>4. /\ pList[q] = << >> /\ pList'[q] = << >>
      /\ \A r \in Process : \A k \in 1..Len(pList[r]) :
           pList[r][k] # q /\ made'[pList[r][k]] = made[pList[r][k]]
      /\ Len(pList'[p]) = Len(pList[p]) + 1 /\ pList'[p][Len(pList[p]) + 1] = q
      /\ \A k \in 1..Len(pList[p]) : pList'[p][k] = pList[p][k]
      /\ Len(pList[p]) \in Nat
  BY MeetPair
<1>5. \A r \in Process : pc[r] # None => made[r] # i
  BY OnlyOnce
<1>6. /\ i = stdin[p][1] /\ 1 \in 1..Len(stdin[p]) /\ Len(Tail(stdin[p])) \in Nat
      /\ \A k \in 1..Len(Tail(stdin[p])) :
           k \in Int /\ k + 1 \in 1..Len(stdin[p]) /\ Tail(stdin[p])[k] = stdin[p][k + 1]
  BY <1>1, NowOne, OneLess
<1> HIDE DEF i
<1>7. pc'[Root] # None /\ made'[Root] = 0 /\ name'[Root] = Not_Tako
  BY <1>2, RootIsProcess DEF FInv
<1>8. ASSUME NEW r \in Process
      PROVE  Kin(r)'
  <2>1. CASE r = q
    <3>1. Len(pList[p]) + 1 \in 1..Len(pList'[p])
      BY <1>4
    <3>2. \E s \in Process : \E k \in 1..Len(pList'[s]) : pList'[s][k] = q
      BY <1>4, <3>1
    <3> QED BY <1>1, <1>2, <2>1, <3>2 DEF Kin
  <2>2. CASE r # q
    <3>1. Kin(r)
      BY DEF FInv
    <3>2. ASSUME NEW s \in Process, NEW k \in 1..Len(pList[s])
          PROVE  k \in 1..Len(pList'[s]) /\ pList'[s][k] = pList[s][k]
      BY <1>2, <1>4
    <3>3. (\E s \in Process : \E k \in 1..Len(pList[s]) : pList[s][k] = r)
            => \E s \in Process : \E k \in 1..Len(pList'[s]) : pList'[s][k] = r
      BY <3>2
    <3> QED BY <1>2, <2>2, <3>1, <3>3 DEF Kin
  <2> QED BY <2>1, <2>2
<1>9. ASSUME NEW r \in Process
      PROVE  Called(r)'
  <2>1. CASE r = p
    <3>1. \A k \in 1..Len(pList'[p]) : k \in 1..Len(pList[p]) \/ k = Len(pList[p]) + 1
      BY <1>4
    <3>2. Called(p) /\ name'[p] = name[p]
      BY <1>2 DEF FInv
    <3>3. ASSUME NEW k \in 1..Len(pList'[p])
          PROVE  input'[made'[pList'[p][k]]].parent = name'[p]
      <4>1. CASE k \in 1..Len(pList[p])
        <5>1. pList'[p][k] = pList[p][k] /\ made'[pList[p][k]] = made[pList[p][k]]
          BY <1>4, <4>1
        <5>2. input[made[pList[p][k]]].parent = name[p]
          BY <3>2, <4>1 DEF Called
        <5> QED BY <1>2, <3>2, <5>1, <5>2
      <4>2. CASE k = Len(pList[p]) + 1
        BY <1>1, <1>2, <1>3, <1>4, <3>2, <4>2
      <4> QED BY <3>1, <4>1, <4>2
    <3> QED BY <2>1, <3>3 DEF Called
  <2>2. CASE r = q
    BY <1>4, <2>2 DEF Called
  <2>3. CASE r # p /\ r # q
    <3>1. Called(r) /\ pList'[r] = pList[r] /\ name'[r] = name[r]
      BY <1>2, <2>3 DEF FInv
    <3>2. \A k \in 1..Len(pList[r]) : made'[pList[r][k]] = made[pList[r][k]]
      BY <1>4
    <3> QED BY <1>2, <3>1, <3>2 DEF Called
  <2> QED BY <2>1, <2>2, <2>3
<1>10. ASSUME NEW r \in Process
       PROVE  Later(r)'
  <2>1. CASE r = p
    <3>1. \A k \in 1..Len(pList'[p]) : k \in 1..Len(pList[p]) \/ k = Len(pList[p]) + 1
      BY <1>4
    <3>2. Later(p) /\ made'[p] = made[p] /\ pc'[p] = "read"
      BY <1>2 DEF FInv
    <3>3. \A k \in 1..Len(stdin[p]) : made[p] < stdin[p][k]
      BY <1>2, <3>2 DEF Later
    <3>4. \A k \in 1..Len(pList'[p]) : made'[p] < made'[pList'[p][k]]
      <4>1. ASSUME NEW k \in 1..Len(pList[p])
            PROVE  made'[p] < made'[pList'[p][k]]
        <5>1. pList'[p][k] = pList[p][k] /\ made'[pList[p][k]] = made[pList[p][k]]
          BY <1>4
        <5> QED BY <3>2, <5>1 DEF Later
      <4>2. made'[p] < made'[pList'[p][Len(pList[p]) + 1]]
        BY <1>1, <1>4, <1>6, <3>2, <3>3
      <4> QED BY <3>1, <4>1, <4>2
    <3>5. \A k \in 1..Len(stdin'[p]) : made'[p] < stdin'[p][k]
      BY <1>1, <1>6, <3>2, <3>3
    <3> QED BY <2>1, <3>2, <3>4, <3>5 DEF Later
  <2>2. CASE r = q
    BY <1>1, <1>2, <1>4, <2>2 DEF Later
  <2>3. CASE r # p /\ r # q
    <3>1. Later(r)
      BY DEF FInv
    <3>2. /\ pc'[r] = pc[r] /\ made'[r] = made[r] /\ pList'[r] = pList[r]
          /\ stdin'[r] = stdin[r] /\ cmd'[r] = cmd[r]
      BY <1>2, <2>3
    <3>3. \A k \in 1..Len(pList[r]) : made'[pList[r][k]] = made[pList[r][k]]
      BY <1>4
    <3> QED BY <3>1, <3>2, <3>3 DEF Later
  <2> QED BY <2>1, <2>2, <2>3
<1>11. Single'
  BY <1>1, <1>2, <1>5 DEF FInv, Single
<1> QED BY <1>7, <1>8, <1>9, <1>10, <1>11 DEF FInv

LEMMA NextFamily ==
  ASSUME AsksForOne(input)
  PROVE  TInv /\ InOrder /\ FInv /\ [Next]_vars => FInv'
<1> SUFFICES ASSUME TInv, InOrder, FInv, [Next]_vars PROVE FInv'
  OBVIOUS
<1>1. CASE UNCHANGED vars
  <2>1. UNCHANGED <<input, pc, name, pList, stdin, cmd, made>>
    BY <1>1 DEF vars
  <2>2. /\ \A p \in Process : Kin(p)' /\ Called(p)'
        /\ Single' /\ pc'[Root] # None /\ made'[Root] = 0 /\ name'[Root] = Not_Tako
    BY <2>1, SameKin
  <2>3. \A p \in Process : Later(p)'
    BY <2>1 DEF FInv, Later
  <2> QED BY <2>2, <2>3 DEF FInv
<1>2. ASSUME NEW p \in Process, Step(p)
      PROVE  FInv'
  BY <1>2, StartFamily, MeetFamily, PassDownFamily, AskFamily, OtherFamily DEF Step
<1> QED BY <1>1, <1>2 DEF Next

-----------------------------------------------------------------------------
(* The refinement.                                                         *)

\* What the mapping takes for the friend a command made.
Bears ==
  /\ \A p \in Process : pc[p] # None => MetBy(made[p]) = Met(p)
  /\ \A f : (\A p \in Process : pc[p] # None => made[p] # f) => MetBy(f) = << >>

LEMMA FamilyBears == FInv => Bears
<1> SUFFICES ASSUME FInv PROVE Bears
  OBVIOUS
<1>1. ASSUME NEW p \in Process, pc[p] # None
      PROVE  MetBy(made[p]) = Met(p)
  <2>1. p \in Born /\ \A r \in Born : made[r] = made[p] => r = p
    BY <1>1 DEF FInv, Single, Born
  <2>2. (CHOOSE r \in Born : made[r] = made[p]) = p
    BY <2>1
  <2> QED BY <2>1, <2>2 DEF MetBy
<1>2. ASSUME NEW f, \A p \in Process : pc[p] # None => made[p] # f
      PROVE  MetBy(f) = << >>
  BY <1>2 DEF MetBy, Born
<1> QED BY <1>1, <1>2 DEF Bears

\* Steps in which nobody is met.
LEMMA SameFamily ==
  ASSUME UNCHANGED <<input, pList, made>>, \A p \in Process : pc'[p] = None <=> pc[p] = None
  PROVE  UNCHANGED Tree!vars
<1>1. Born' = Born /\ \A p : Met(p)' = Met(p)
  BY DEF Born, Met
<1>2. \A f : MetBy(f)' = MetBy(f)
  BY <1>1 DEF MetBy
<1> QED BY <1>2 DEF Tree!vars

\* Not_Tako is the friend 0, and every other one is known to Family.
LEMMA KnownFriend ==
  ASSUME TInv, InOrder, FInv, Bears, NEW p \in Process, pc[p] # None
  PROVE  /\ made[p] \in Tree!Friends /\ made[p] \in 0..Len(input)
         /\ Tree!NameOf(made[p]) = name[p]
<1>1. CASE p = Root
  BY <1>1, NowOne DEF FInv, Tree!Friends, Tree!NameOf
<1>2. CASE p # Root
  <2>1. /\ made[p] \in 1..Len(input) /\ name[p] = input[made[p]].child
        /\ \E r \in Process : \E k \in 1..Len(pList[r]) : pList[r][k] = p
    BY <1>2 DEF FInv, Kin
  <2>2a. PICK r \in Process : \E k \in 1..Len(pList[r]) : pList[r][k] = p
    BY <2>1
  <2>2. PICK k \in 1..Len(pList[r]) : pList[r][k] = p
    BY <2>2a
  <2>3. pc[r] # None
    <3>1. pc[r] = None => pList[r] = << >>
      BY NowOne DEF Working
    <3>2. pList[r] # << >>
      BY <2>2
    <3> QED BY <3>1, <3>2
  <2>4. made[r] \in 0..Len(input) /\ Len(pList[r]) \in Nat /\ Len(input) \in Nat
    BY NowOne
  <2>5. MetBy(made[r]) = Met(r) /\ DOMAIN Met(r) = 1..Len(pList[r]) /\ Met(r)[k] = made[p]
    BY <2>2, <2>3 DEF Bears, Met
  <2>6. made[p] \in Tree!Range(MetBy(made[r]))
    BY <2>2, <2>5 DEF Tree!Range
  <2>7. made[p] \in Tree!Friends
    BY <2>4, <2>6 DEF Tree!Friends
  <2> QED BY <2>1, <2>4, <2>7 DEF Tree!NameOf
<1> QED BY <1>1, <1>2

\* Whom Family knows exists.
LEMMA FriendBorn ==
  ASSUME TInv, InOrder, FInv, Bears, NEW f \in Tree!Friends
  PROVE  \E p \in Process : pc[p] # None /\ made[p] = f
<1>1. CASE f = 0
  BY <1>1, RootIsProcess DEF FInv
<1>2. CASE f # 0
  <2>1. PICK g \in 0..Len(input) : f \in Tree!Range(MetBy(g))
    BY <1>2 DEF Tree!Friends
  <2>2. PICK k \in DOMAIN MetBy(g) : MetBy(g)[k] = f
    BY <2>1 DEF Tree!Range
  <2>3. PICK p \in Process : pc[p] # None /\ made[p] = g
    <3>1. MetBy(g) # << >>
      BY <2>2
    <3> QED BY <3>1 DEF Bears
  <2>4. k \in 1..Len(pList[p]) /\ made[pList[p][k]] = f
    BY <2>2, <2>3 DEF Bears, Met
  <2> QED BY <2>4, NowKin
<1> QED BY <1>1, <1>2

LEMMA MeetTree ==
  ASSUME AsksForOne(input), TInv, InOrder, FInv, Bears, Bears',
         NEW p \in Process, NEW q \in Process, Meet(p, q)
  PROVE  Tree!Next
<1> DEFINE i == Head(stdin[p])
<1>1. /\ stdin[p] # << >> /\ i \in 1..Len(input) /\ made'[q] = i /\ Len(input) \in Nat
  BY MeetDoes, NowOne
<1>2. /\ p # q /\ q # Root /\ pc[q] = None /\ pc[p] = "read" /\ pc'[q] = "start"
      /\ \A r \in Process : r # q => pc'[r] = pc[r] /\ made'[r] = made[r]
      /\ \A r \in Process : r # p => pList'[r] = pList[r]
      /\ input' = input
  BY MeetLeaves
<1>3. input[i].parent = name[p]
  BY DEF Meet, Named
<1>4. /\ pList[q] = << >> /\ pList'[q] = << >>
      /\ \A r \in Process : \A k \in 1..Len(pList[r]) :
           pList[r][k] # q /\ made'[pList[r][k]] = made[pList[r][k]]
      /\ Len(pList'[p]) = Len(pList[p]) + 1 /\ pList'[p][Len(pList[p]) + 1] = q
      /\ \A k \in 1..Len(pList[p]) : pList'[p][k] = pList[p][k]
      /\ Len(pList[p]) \in Nat
  BY MeetPair
<1>5. \A r \in Process : pc[r] # None => made[r] # i
  BY OnlyOnce
<1>6. i = stdin[p][1] /\ 1 \in 1..Len(stdin[p])
  BY <1>1, NowOne, OneLess
<1> HIDE DEF i
<1>7. /\ made[p] \in Tree!Friends /\ made[p] \in 0..Len(input) /\ Tree!NameOf(made[p]) = name[p]
      /\ MetBy(made[p]) = Met(p) /\ pc[p] # None
  BY <1>2, KnownFriend DEF Bears, None
<1>8. i \notin Tree!Friends
  BY <1>5, FriendBorn
<1>9. made[p] < i
  BY <1>2, <1>6, NowKin DEF Later
<1>10. \A k \in DOMAIN MetBy(made[p]) : MetBy(made[p])[k] < i
  <2>1. ASSUME NEW k \in 1..Len(pList[p])
        PROVE  made[pList[p][k]] < i
    <3>1. /\ made[pList[p][k]] <= cmd[p] /\ cmd[p] < i
          /\ made[pList[p][k]] \in Int /\ cmd[p] \in Int /\ i \in Int
      BY <1>1, <1>6, NowKin DEF Order
    <3> QED BY <3>1
  <2> QED BY <1>7, <2>1 DEF Met
<1>11. Met(p)' = Append(MetBy(made[p]), i)
  <2> DEFINE n == Len(pList[p])
  <2>1. n \in Nat /\ Len(pList'[p]) = n + 1
    BY <1>4
  <2>2. Met(p) = [k \in 1..n |-> made[pList[p][k]]]
    BY DEF Met
  <2>3. Met(p)' = [k \in 1..(n + 1) |-> made'[pList'[p][k]]]
    BY <2>1 DEF Met
  <2>4. \A k \in 1..n : made[pList[p][k]] \in Int /\ made'[pList'[p][k]] = made[pList[p][k]]
    BY <1>4, NowKin
  <2>5. made'[pList'[p][n + 1]] = i
    BY <1>1, <1>4
  <2> HIDE DEF n
  <2>6. \A k \in 1..(n + 1) : k \in 1..n \/ k = n + 1
    BY <2>1
  <2>7. Met(p) \in Seq(Int) /\ Len(Met(p)) = n
    BY <2>1, <2>2, <2>4
  <2>8. /\ Append(Met(p), i) \in Seq(Int) /\ Len(Append(Met(p), i)) = n + 1
        /\ \A k \in 1..n : Append(Met(p), i)[k] = Met(p)[k]
        /\ Append(Met(p), i)[n + 1] = i
    <3>1. i \in Int
      BY <1>1
    <3> QED BY <2>7, <3>1, AppendProperties
  <2>9. \A k \in 1..(n + 1) : made'[pList'[p][k]] = Append(Met(p), i)[k]
    BY <2>2, <2>4, <2>5, <2>6, <2>8
  <2>10. \A k \in 1..(n + 1) : Append(Met(p), i)[k] \in Int
    BY <2>8
  <2>11. Met(p)' \in Seq(Int) /\ Len(Met(p)') = n + 1
    <3>1. \A k \in 1..(n + 1) : made'[pList'[p][k]] \in Int
      BY <2>9, <2>10
    <3>2. n + 1 \in Nat
      BY <2>1
    <3> QED BY <2>3, <3>1, <3>2
  <2>12. Met(p)' = Append(Met(p), i)
    BY <2>3, <2>8, <2>9, <2>11, SeqEqual
  <2> QED BY <1>7, <2>12
<1>12. MetBy(made[p])' = Append(MetBy(made[p]), i)
  BY <1>2, <1>7, <1>11 DEF Bears, None
<1>13. ASSUME NEW f \in 0..Len(input), f # made[p]
       PROVE  MetBy(f)' = MetBy(f)
  <2>1. CASE f = i
    <3>1. MetBy(f) = << >>
      BY <1>5, <2>1 DEF Bears
    <3>2. MetBy(f)' = Met(q)'
      BY <1>1, <1>2, <2>1 DEF Bears, None
    <3>3. Met(q)' = << >>
      BY <1>4 DEF Met
    <3> QED BY <3>1, <3>2, <3>3
  <2>2. ASSUME NEW r \in Process, pc[r] # None, made[r] = f
        PROVE  MetBy(f)' = MetBy(f)
    <3>1. r # p /\ r # q
      BY <1>2, <1>13, <2>2
    <3>2. pc'[r] # None /\ made'[r] = f /\ pList'[r] = pList[r]
      BY <1>2, <2>2, <3>1
    <3>3. Met(r)' = Met(r)
      BY <1>4, <3>2 DEF Met
    <3> QED BY <2>2, <3>2, <3>3 DEF Bears
  <2>3. CASE f # i /\ \A r \in Process : pc[r] # None => made[r] # f
    <3>1. \A r \in Process : pc'[r] # None => made'[r] # f
      BY <1>1, <1>2, <2>3
    <3> QED BY <2>3, <3>1 DEF Bears
  <2> QED BY <2>1, <2>2, <2>3
<1>14. [f \in 0..Len(input') |-> MetBy(f)'] =
         [[f \in 0..Len(input) |-> MetBy(f)] EXCEPT ![made[p]] = Append(@, i)]
  BY <1>2, <1>7, <1>12, <1>13
<1>15. Tree!Meet(made[p], i)
  BY <1>2, <1>3, <1>7, <1>8, <1>9, <1>10, <1>14 DEF Tree!Meet
<1>16. i \in DOMAIN input
  <2>1. input \in Inputs
    BY DEF TInv, TypeOK
  <2>2. DOMAIN input = 1..Len(input)
    BY <2>1, InputIsCommands, LenProperties
  <2> QED BY <1>1, <2>2
<1> QED BY <1>7, <1>15, <1>16 DEF Tree!Next

LEMMA InitTree == Init => Tree!Init
<1> SUFFICES ASSUME Init PROVE Tree!Init
  OBVIOUS
<1>1. FInv
  BY InitFamily
<1>2. Bears
  BY <1>1, FamilyBears
<1>3. \A p \in Process : pList[p] = << >>
  BY DEF Init
<1>4. ASSUME NEW f
      PROVE  MetBy(f) = << >>
  <2>1. \A p \in Process : Met(p) = << >>
    BY <1>3 DEF Met
  <2> QED BY <1>2, <2>1 DEF Bears
<1>5. input \in Inputs
  BY DEF Init
<1> QED BY <1>4, <1>5 DEF Tree!Init

LEMMA NextTree ==
  ASSUME AsksForOne(input)
  PROVE  TInv /\ InOrder /\ FInv /\ Bears /\ Bears' /\ [Next]_vars => [Tree!Next]_Tree!vars
<1> SUFFICES ASSUME TInv, InOrder, FInv, Bears, Bears', [Next]_vars
             PROVE  [Tree!Next]_Tree!vars
  OBVIOUS
<1>1. CASE UNCHANGED vars
  <2>1. UNCHANGED Tree!vars
    BY <1>1, SameFamily DEF vars
  <2> QED BY <2>1
<1>2. ASSUME NEW p \in Process, Step(p)
      PROVE  [Tree!Next]_Tree!vars
  <2>1. ASSUME NEW q \in Process, Meet(p, q)
        PROVE  [Tree!Next]_Tree!vars
    BY <2>1, MeetTree
  <2>2. CASE Start(p)
    <3>1. UNCHANGED Tree!vars
      BY <2>2, StartDoes, SameFamily DEF None
    <3> QED BY <3>1
  <2>3. CASE PassDown(p)
    <3>1. UNCHANGED Tree!vars
      BY <2>3, PassDownDoes, SameFamily DEF None
    <3> QED BY <3>1
  <2>4. CASE Ask(p)
    <3>1. UNCHANGED Tree!vars
      BY <2>4, AskDoes, SameFamily DEF None
    <3> QED BY <3>1
  <2>5. CASE Listen(p)
    <3>1. UNCHANGED Tree!vars
      BY <2>5, ListenDoes, SameFamily DEF None
    <3> QED BY <3>1
  <2>6. CASE Fail(p)
    <3>1. UNCHANGED Tree!vars
      BY <2>6, FailDoes, SameFamily DEF None
    <3> QED BY <3>1
  <2> QED BY <1>2, <2>1, <2>2, <2>3, <2>4, <2>5, <2>6 DEF Step
<1> QED BY <1>1, <1>2 DEF Next

\* The commands are those given.
LEMMA CommandsStay == [Next]_vars => input' = input
<1> SUFFICES ASSUME NEW p \in Process, Step(p)
             PROVE  input' = input
  BY DEF Next, vars
<1> QED BY DEF Step, Start, Meet, PassDown, Ask, Listen, Fail

\* ImplementsFamily of the runs: for any tree, any names and any list of
\* commands in which no name is asked for once it may have been given twice,
\* each command is carried out at most once, by a friend of the name it gives
\* who was there before, and every friend carries out commands in their order.
THEOREM FamilyGrows == Spec => ImplementsFamily
<1> DEFINE One == AsksForOne(input)
           OneFInv == One => FInv
           OneBears == One => Bears
<1>1. Init => InOrder /\ OneFInv /\ Tree!Init
  BY InitOrder, InitFamily, InitTree
<1>2. TInv /\ InOrder /\ [Next]_vars => InOrder'
  BY NextOrder
<1>3. TInv /\ InOrder /\ OneFInv /\ [Next]_vars => OneFInv'
  <2> SUFFICES ASSUME TInv, InOrder, OneFInv, [Next]_vars, One'
               PROVE  FInv'
    OBVIOUS
  <2>1. One
    BY CommandsStay DEF AsksForOne, Expected
  <2> QED BY <2>1, NextFamily
<1>4. OneFInv => OneBears
  BY FamilyBears
<1>5. /\ TInv /\ InOrder /\ OneFInv /\ OneBears /\ OneBears' /\ [Next]_vars
      => [One => Tree!Next]_(Tree!vars)
  <2> SUFFICES ASSUME TInv, InOrder, OneFInv, OneBears, OneBears', [Next]_vars, One
               PROVE  [Tree!Next]_(Tree!vars)
    OBVIOUS
  <2>1. One'
    BY CommandsStay DEF AsksForOne, Expected
  <2> QED BY <2>1, NextTree
<1> QED BY <1>1, <1>2, <1>3, <1>4, <1>5, TreeInvariance, PTL DEF Spec, ImplementsFamily
=============================================================================
