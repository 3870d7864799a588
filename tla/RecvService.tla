----------------------------- MODULE RecvService -----------------------------
(***************************************************************************)
(* What std_espnow_read promises its readers, without a heap, pointers,    *)
(* peeks or types: a packet that is not dropped on arrival is read in the  *)
(* order of arrival, by one reader, who alone has it until it releases it. *)
(***************************************************************************)
EXTENDS Naturals, Sequences, Functions

CONSTANTS Readers, Packets, Capacity, None
VARIABLES arriving, \* the packet the radio is delivering
          line,     \* packets waiting to be read
          held      \* what each reader has been given

vars == <<arriving, line, held>>

Init == arriving = None /\ line = <<>> /\ held = [r \in Readers |-> None]

\* A packet that nobody has yet.
Arrive(p) ==
  /\ arriving = None /\ arriving' = p
  /\ p \notin Range(line) /\ \A r \in Readers : held[r] # p
  /\ UNCHANGED <<line, held>>

Accept ==
  /\ arriving # None /\ arriving' = None
  /\ Len(line) < Capacity /\ line' = Append(line, arriving)
  /\ UNCHANGED held

Drop == /\ arriving # None /\ arriving' = None
        /\ Len(line) = Capacity /\ UNCHANGED <<line, held>>

Fetch(r) ==
  /\ held[r] = None /\ line # <<>>
  /\ held' = [held EXCEPT ![r] = Head(line)] /\ line' = Tail(line)
  /\ UNCHANGED arriving

Release(r) == /\ held[r] # None /\ held' = [held EXCEPT ![r] = None]
              /\ UNCHANGED <<arriving, line>>

Next == \/ \E p \in Packets : Arrive(p)
        \/ Accept \/ Drop
        \/ \E r \in Readers : Fetch(r) \/ Release(r)

Spec == Init /\ [][Next]_vars
=============================================================================
