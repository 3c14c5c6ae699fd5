------------------------------ MODULE Namespace ------------------------------
(***************************************************************************)
(* What the directories of fulfs promise, without the order of the entries *)
(* in a directory, link counts, or the tables behind them: a file has a    *)
(* kind, and a directory binds names to files, the same name perhaps more  *)
(* than once.  A call adds one binding or takes one away, and a file that  *)
(* is bound anywhere exists.  Calls that fail or die half way may leave a  *)
(* file without a name.  `broken` is set by the few histories that no      *)
(* promise survives.                                                       *)
(***************************************************************************)
EXTENDS Naturals

CONSTANTS Inodes, Names, Root

VARIABLES
    kind,           \* "empty", "file" or "dir", for each inode
    bound,          \* how often each inode binds each name to each file
    broken

vars == <<kind, bound, broken>>

Binding  == [name : Names, no : Inodes]
BindsNothing(d) == \A b \in Binding : bound[d][b] = 0
NotBound(i) == \A d \in Inodes, b \in Binding : b.no = i => bound[d][b] = 0

Init ==
    /\ kind = [i \in Inodes |-> IF i = Root THEN "dir" ELSE "empty"]
    /\ bound = [d \in Inodes |-> [b \in Binding |-> 0]]
    /\ broken = FALSE

Bind(d, b) ==
    /\ kind[d] = "dir"
    /\ bound' = [bound EXCEPT ![d][b] = @ + 1]

\* open or mkdir makes a file and its name.
Create(d, b, k) ==
    /\ kind[b.no] = "empty"
    /\ kind' = [kind EXCEPT ![b.no] = k]
    /\ Bind(d, b)
    /\ UNCHANGED broken

\* The call does not get to the name.
CreateNameless(i, k) ==
    /\ kind[i] = "empty"
    /\ kind' = [kind EXCEPT ![i] = k]
    /\ UNCHANGED <<bound, broken>>

Link(d, b) ==
    /\ kind[b.no] = "file"
    /\ Bind(d, b)
    /\ UNCHANGED <<kind, broken>>

\* unlink or rmdir.  Only the last name takes a file with it; a directory
\* that still binds names stays bound.
Unlink(d, b) ==
    /\ bound[d][b] > 0
    /\ bound' = [bound EXCEPT ![d][b] = @ - 1]
    /\ kind[b.no] = "dir" => BindsNothing(b.no)
    /\ \/ UNCHANGED kind
       \/ NotBound(b.no)' /\ kind' = [kind EXCEPT ![b.no] = "empty"]
    /\ UNCHANGED broken

Break == broken' = TRUE

Next ==
    \/ \E d \in Inodes, b \in Binding :
          \/ Unlink(d, b)
          \/ Link(d, b)
          \/ \E k \in {"file", "dir"} : Create(d, b, k)
    \/ \E i \in Inodes, k \in {"file", "dir"} : CreateNameless(i, k)
    \/ Break

Spec == Init /\ [][Next]_vars
=============================================================================
