----------------------------- MODULE FriendTree -----------------------------
(***************************************************************************)
(* The process tree of sp2024-hw2 (friend.c): Not_Tako reads commands and  *)
(* hands each down the tree, depth first, until a friend of the name it    *)
(* asks for forks a new friend.  Every friend is a process that reads its  *)
(* parent's commands from its stdin and writes its answer, the name of the *)
(* friend that carried the command out or "-", to its stdout; both are     *)
(* pipes, and nothing in them says where one answer ends.                  *)
(*                                                                         *)
(* A process acts on its own between two reads of a pipe, so what it does  *)
(* from one read, or print, to the next is one action.  The command is     *)
(* always Meet.  A read that fills the buffer to its end is taken to end   *)
(* there.                                                                  *)
(***************************************************************************)
EXTENDS Integers, Sequences

CONSTANTS
  P,          \* processes the system can have besides the root
  Letter,     \* the bytes of names
  Name,       \* what a friend may be called: sequences of letters
  Not_Tako,   \* the name of the root
  Inputs,     \* the command files: sequences of [parent, child]
  MAX_FRIEND_NAME_LEN

Process == 0..P
Root == 0
None == "none"   \* the pc of a process that has not been forked
No == "-"        \* the answer of a friend who does not know the parent

Byte == Letter \cup {No}
Command == [parent : Name, child : Name \ {Not_Tako}]

ASSUME SizeAssumption == P \in Nat /\ MAX_FRIEND_NAME_LEN \in Nat \ {0}
ASSUME NameAssumption ==
  /\ No \notin Letter /\ Not_Tako \in Name
  /\ \A n \in Name : n \in Seq(Letter) /\ Len(n) \in 1..(MAX_FRIEND_NAME_LEN - 1)
ASSUME InputAssumption == Inputs \subseteq Seq(Command)

VARIABLES
  input,      \* the commands, in the order Not_Tako is given them
  pc,         \* where a process is in its main
  name,       \* friend_name
  pList,      \* its children, in the order they were met
  stdin,      \* the commands in the pipe to it, as indices of input
  stdout,     \* the bytes in the pipe from it
  cmd,        \* the command at hand
  pNode,      \* the position in pList of the child that is asked
  middle,     \* the buffer for that child's answer
  made        \* history: the command that made a process

vars == <<input, pc, name, pList, stdin, stdout, cmd, pNode, middle, made>>

PC == {None, "start", "read", "ask", "listen"}

-----------------------------------------------------------------------------
(* Pipes and buffers.                                                      *)

\* printf to stdout, which is unbuffered.  Not_Tako's is nobody's pipe.
Printed(p, bytes) == IF p = Root THEN stdout[p] ELSE stdout[p] \o bytes

\* What read() takes of the bytes there are, and what it leaves.
Taken(bytes) ==
  IF Len(bytes) <= MAX_FRIEND_NAME_LEN THEN bytes
  ELSE SubSeq(bytes, 1, MAX_FRIEND_NAME_LEN)

LeftIn(bytes) == SubSeq(bytes, Len(Taken(bytes)) + 1, Len(bytes))

\* The buffer after a read: bytes of a longer answer stay behind a shorter.
Over(new, old) ==
  IF Len(new) >= Len(old) THEN new ELSE new \o SubSeq(old, Len(new) + 1, Len(old))

-----------------------------------------------------------------------------
Init ==
  /\ input \in Inputs
  /\ pc = [p \in Process |-> IF p = Root THEN "read" ELSE None]
  /\ name = [p \in Process |-> Not_Tako]
  /\ pList = [p \in Process |-> << >>]
  /\ stdin = [p \in Process |-> IF p = Root THEN [k \in 1..Len(input) |-> k] ELSE << >>]
  /\ stdout = [p \in Process |-> << >>]
  /\ cmd = [p \in Process |-> 0]
  /\ pNode = [p \in Process |-> 1]
  /\ middle = [p \in Process |-> << >>]
  /\ made = [p \in Process |-> 0]

StartMutant(p) ==
  /\ pc[p] = "start" /\ stdin[p] # << >>
  /\ pc' = [pc EXCEPT ![p] = "read"]
  /\ UNCHANGED <<input, name, pList, stdin, stdout, cmd, pNode, middle, made>>

\* A new friend takes the command that made it off its pipe.
Start(p) ==
  /\ pc[p] = "start" /\ stdin[p] # << >>
  /\ stdin' = [stdin EXCEPT ![p] = Tail(@)]
  /\ pc' = [pc EXCEPT ![p] = "read"]
  /\ UNCHANGED <<input, name, pList, stdout, cmd, pNode, middle, made>>

\* p finds a command in its pipe, for a parent called so.
Finds(p) == pc[p] = "read" /\ stdin[p] # << >>
Named(p) == input[Head(stdin[p])].parent

MeetFirstMutant(p, q) ==
  /\ Finds(p) /\ Named(p) = name[p]
  /\ pc[q] = None /\ \A r \in Process : r < q => pc[r] # None
  /\ cmd' = [cmd EXCEPT ![p] = Head(stdin[p])]
  /\ pc' = [pc EXCEPT ![q] = "start"]
  /\ name' = [name EXCEPT ![q] = input[Head(stdin[p])].child]
  /\ made' = [made EXCEPT ![q] = Head(stdin[p])]
  /\ pList' = [pList EXCEPT ![p] = <<q>> \o @]
  /\ stdin' = [stdin EXCEPT ![p] = Tail(@), ![q] = <<Head(stdin[p])>>]
  /\ stdout' = [stdout EXCEPT ![p] = Printed(p, name[p])]
  /\ UNCHANGED <<input, pNode, middle>>

\* It is p itself: p forks friend q, hands it the command and says its name.
Meet(p, q) ==
  /\ Finds(p) /\ Named(p) = name[p]
  /\ pc[q] = None /\ \A r \in Process : r < q => pc[r] # None
  /\ cmd' = [cmd EXCEPT ![p] = Head(stdin[p])]
  /\ pc' = [pc EXCEPT ![q] = "start"]
  /\ name' = [name EXCEPT ![q] = input[Head(stdin[p])].child]
  /\ made' = [made EXCEPT ![q] = Head(stdin[p])]
  /\ pList' = [pList EXCEPT ![p] = Append(@, q)]
  /\ stdin' = [stdin EXCEPT ![p] = Tail(@), ![q] = <<Head(stdin[p])>>]
  /\ stdout' = [stdout EXCEPT ![p] = Printed(p, name[p])]
  /\ UNCHANGED <<input, pNode, middle>>

PassDownMutant(p) ==
  /\ Finds(p) /\ Named(p) # name[p]
  /\ cmd' = [cmd EXCEPT ![p] = Head(stdin[p])]
  /\ stdin' = [stdin EXCEPT ![p] = Tail(@)]
  /\ pc' = [pc EXCEPT ![p] = "ask"]
  /\ pNode' = [pNode EXCEPT ![p] = 0]
  /\ middle' = [middle EXCEPT ![p] = << >>]
  /\ UNCHANGED <<input, name, pList, stdout, made>>

\* It is not: p is to ask its children.
PassDown(p) ==
  /\ Finds(p) /\ Named(p) # name[p]
  /\ cmd' = [cmd EXCEPT ![p] = Head(stdin[p])]
  /\ stdin' = [stdin EXCEPT ![p] = Tail(@)]
  /\ pc' = [pc EXCEPT ![p] = "ask"]
  /\ pNode' = [pNode EXCEPT ![p] = 1]
  /\ middle' = [middle EXCEPT ![p] = << >>]
  /\ UNCHANGED <<input, name, pList, stdout, made>>

\* The next child is handed the command ...
Ask(p) ==
  /\ pc[p] = "ask" /\ pNode[p] <= Len(pList[p])
  /\ stdin' = [stdin EXCEPT ![pList[p][pNode[p]]] = Append(@, cmd[p])]
  /\ pc' = [pc EXCEPT ![p] = "listen"]
  /\ UNCHANGED <<input, name, pList, stdout, cmd, pNode, middle, made>>

\* ... and one read() is taken for its answer, which p passes on.
Listen(p) ==
  LET c == pList[p][pNode[p]]
      answer == Over(Taken(stdout[c]), middle[p])
  IN
  /\ pc[p] = "listen" /\ stdout[c] # << >>
  /\ middle' = [middle EXCEPT ![p] = answer]
  /\ stdout' = [stdout EXCEPT ![c] = LeftIn(@), ![p] = Printed(p, answer)]
  /\ IF answer[1] = No
       THEN pc' = [pc EXCEPT ![p] = "ask"] /\ pNode' = [pNode EXCEPT ![p] = @ + 1]
       ELSE pc' = [pc EXCEPT ![p] = "read"] /\ pNode' = pNode
  /\ UNCHANGED <<input, name, pList, stdin, cmd, made>>

FailMutant(p) ==
  /\ pc[p] = "ask" /\ pNode[p] > Len(pList[p])
  /\ stdout' = [stdout EXCEPT ![p] = IF pList[p] # << >> THEN @ ELSE Printed(p, << >>)]
  /\ pc' = [pc EXCEPT ![p] = "read"]
  /\ UNCHANGED <<input, name, pList, stdin, cmd, pNode, middle, made>>

\* No child is left to ask: p adds an answer of its own.
Fail(p) ==
  /\ pc[p] = "ask" /\ pNode[p] > Len(pList[p])
  /\ stdout' = [stdout EXCEPT ![p] = Printed(p, <<No>>)]
  /\ pc' = [pc EXCEPT ![p] = "read"]
  /\ UNCHANGED <<input, name, pList, stdin, cmd, pNode, middle, made>>

Step(p) ==
  \/ Start(p)
  \/ \E q \in Process : Meet(p, q)
  \/ PassDown(p) \/ Ask(p) \/ Listen(p) \/ Fail(p)

Next == \E p \in Process : Step(p)

Spec == Init /\ [][Next]_vars

\* Every process keeps running.
FairSpec == Spec /\ \A p \in Process : WF_vars(Step(p))

-----------------------------------------------------------------------------
(* Properties.                                                             *)

Born == {p \in Process : pc[p] # None}

\* The commands p has carried out, and those the friend has that command f made.
Met(p) == [k \in 1..Len(pList[p]) |-> made[pList[p][k]]]

MetBy(f) ==
  IF \E p \in Born : made[p] = f THEN Met(CHOOSE p \in Born : made[p] = f) ELSE << >>

\* Every variable has its type.
TypeOK ==
  /\ input \in Inputs
  /\ pc \in [Process -> PC]
  /\ name \in [Process -> Name]
  /\ pList \in [Process -> Seq(Process)]
  /\ stdin \in [Process -> Seq(1..Len(input))]
  /\ stdout \in [Process -> Seq(Byte)]
  /\ cmd \in [Process -> 0..Len(input)]
  /\ pNode \in [Process -> Nat \ {0}]
  /\ middle \in [Process -> Seq(Byte)]
  /\ made \in [Process -> 0..Len(input)]

\* A friend that waits for an answer gets one: there is something in the
\* pipe, or the child still has a command to answer, although answers are
\* split, merged and left over, and one read may have taken several.
ReadsAreOwed ==
  \A p \in Process :
    pc[p] = "listen" =>
      LET c == pList[p][pNode[p]] IN
      \/ stdout[c] # << >>
      \/ pc[c] \in {"ask", "listen"}
      \/ pc[c] = "read" /\ stdin[c] # << >>
      \/ pc[c] = "start" /\ Len(stdin[c]) > 1

\* Every friend carries commands out in the order they were given and none
\* twice, and hands them down in that order, although a parent goes on to
\* the next command while its children are still busy with earlier ones.
CommandsInOrder ==
  \A p \in Process :
    LET met == Met(p) IN
    /\ \A j, k \in DOMAIN met : j < k => met[j] < met[k]
    /\ \A j, k \in DOMAIN stdin[p] : j < k => stdin[p][j] < stdin[p][k]
    /\ \A j \in DOMAIN met, k \in DOMAIN stdin[p] : met[j] <= cmd[p] /\ cmd[p] < stdin[p][k]

\* The friend that command j is for may exist: he is Not_Tako, or a command
\* before it was to meet one of his name.
Expected(commands, j) ==
  \/ commands[j].parent = Not_Tako
  \/ \E h \in 1..Len(commands) : h < j /\ commands[h].child = commands[j].parent

\* No name is asked for once it may have been given twice.  The test files
\* whose only command is Meet are such.
AsksForOne(commands) ==
  \A i, j, k \in 1..Len(commands) :
    /\ i < j /\ j < k /\ commands[i].child = commands[j].child
    /\ Expected(commands, i) /\ Expected(commands, j)
    => commands[k].parent # commands[j].child

\* For commands that ask for one, the processes implement Family: although an
\* answer that was left over or passed on early makes a friend hand one command
\* down several branches, no more than one friend carries it out.  For other
\* commands two of one name, in two branches, may both do.
Tree == INSTANCE Family WITH commands <- input, met <- [f \in 0..Len(input) |-> MetBy(f)]

ImplementsFamily == Tree!Init /\ [][AsksForOne(input) => Tree!Next]_(Tree!vars)

\* Every command comes to an end: all friends get back to reading and find
\* nothing more to do.
AllComeToRest ==
  <>[](\A p \in Born : pc[p] = "read" /\ stdin[p] = << >>)

\* What Not_Tako says of a command is true: that he does not know the friend
\* it is for, only if there is none of that name, and that he has met somebody
\* through a friend, only if there is one of the name he says.
SaysTheTruth ==
  [][/\ Fail(Root) => \A p \in Born : name[p] # input[cmd[Root]].parent
     /\ Listen(Root) /\ middle'[Root][1] # No => \E p \in Born : name[p] = middle'[Root]]_vars
=============================================================================
