---------------------------- MODULE TradeLedger ----------------------------
(***************************************************************************)
(* What the tables of Capital Trader promise about the account, whatever   *)
(* is lost, raised, stale, raced or started again:                         *)
(*                                                                         *)
(*   - a submission places at most one deal, and only after its row is     *)
(*     stored;                                                             *)
(*   - the identifier in a submission's row is of the deal it placed, and  *)
(*     is given once; an order row is imported only for a deal the broker  *)
(*     has had;                                                            *)
(*   - a position row is made once, for what has been a position, and is   *)
(*     closed once, after the position is gone.                            *)
(*                                                                         *)
(* It does not promise that a deal has one order row, that a placed deal   *)
(* is known to its row, nor a limit on what is open.                       *)
(***************************************************************************)
CONSTANTS None, Submissions, Deals

VARIABLES
  held,      \* what the broker holds under a deal id
  owner,     \* the submission that placed the deal
  stored,    \* submissions with an order row
  known,     \* the deal a submission's row names
  imported,  \* deals with an order row of their own
  row        \* the status of the deal's position row

broker == <<held, owner>>
vars   == <<broker, stored, known, imported, row>>

Init ==
  /\ held = [d \in Deals |-> "unused"]
  /\ owner = [d \in Deals |-> None]
  /\ stored = {}
  /\ known = [o \in Submissions |-> None]
  /\ imported = {}
  /\ row = [d \in Deals |-> "none"]

-----------------------------------------------------------------------------
Store(o) ==
  /\ stored' = stored \cup {o}
  /\ UNCHANGED <<broker, known, imported, row>>

Begin(d) ==
  /\ held[d] = "unused"
  /\ \E s \in {"working", "open"} : held' = [held EXCEPT ![d] = s]
  /\ UNCHANGED <<stored, known, imported, row>>

Place(o, d) ==
  /\ o \in stored
  /\ \A e \in Deals : owner[e] # o
  /\ Begin(d)
  /\ owner' = [owner EXCEPT ![d] = o]

OpenElsewhere(d) == Begin(d) /\ UNCHANGED owner

(* A working order fills or is cancelled; a position ends.                  *)
Move(d) ==
  /\ \/ held[d] = "working" /\ held' = [held EXCEPT ![d] = "open"]
     \/ held[d] = "working" /\ held' = [held EXCEPT ![d] = "cancelled"]
     \/ held[d] = "open"    /\ held' = [held EXCEPT ![d] = "gone"]
  /\ UNCHANGED <<owner, stored, known, imported, row>>

Learn(o, d) ==
  /\ o \in stored
  /\ owner[d] = o
  /\ known[o] = None
  /\ known' = [known EXCEPT ![o] = d]
  /\ UNCHANGED <<broker, stored, imported, row>>

Import(d) ==
  /\ held[d] # "unused"
  /\ imported' = imported \cup {d}
  /\ UNCHANGED <<broker, stored, known, row>>

OpenRow(d) ==
  /\ held[d] \in {"open", "gone"}
  /\ row[d] = "none"
  /\ row' = [row EXCEPT ![d] = "OPEN"]
  /\ UNCHANGED <<broker, stored, known, imported>>

CloseRow(d) ==
  /\ held[d] = "gone"
  /\ row[d] = "OPEN"
  /\ row' = [row EXCEPT ![d] = "CLOSED"]
  /\ UNCHANGED <<broker, stored, known, imported>>

Next ==
  \/ \E o \in Submissions : Store(o)
  \/ \E o \in Submissions, d \in Deals : Place(o, d) \/ Learn(o, d)
  \/ \E d \in Deals : \/ OpenElsewhere(d) \/ Move(d)
                      \/ Import(d) \/ OpenRow(d) \/ CloseRow(d)

Spec == Init /\ [][Next]_vars

-----------------------------------------------------------------------------
TypeOK ==
  /\ held \in [Deals -> {"unused", "working", "open", "cancelled", "gone"}]
  /\ owner \in [Deals -> Submissions \cup {None}]
  /\ stored \subseteq Submissions
  /\ known \in [Submissions -> Deals \cup {None}]
  /\ imported \subseteq Deals
  /\ row \in [Deals -> {"none", "OPEN", "CLOSED"}]

(* What the promises amount to: no two deals are of one submission, each    *)
(* has its submission's row, and what the tables name or close is true.    *)
Sound ==
  /\ \A d, e \in Deals : owner[d] # None /\ owner[d] = owner[e] => d = e
  /\ \A d \in Deals : owner[d] # None => owner[d] \in stored
  /\ \A o \in Submissions : known[o] # None => owner[known[o]] = o
  /\ \A d \in imported : held[d] # "unused"
  /\ \A d \in Deals : row[d] = "OPEN" => held[d] \in {"open", "gone"}
  /\ \A d \in Deals : row[d] = "CLOSED" => held[d] = "gone"
=============================================================================
