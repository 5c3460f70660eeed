---------------------------- MODULE SampleWindow ----------------------------
(***************************************************************************)
(* What a Monitor promises to the policy engine and the RPC server: a      *)
(* sliding window over the most recent samples, that a reader obtains as   *)
(* one atomic snapshot, and an availability flag.  A reader is refused     *)
(* only at an instant when the window is not on offer, and the snapshot it *)
(* gets is the window as it was at one instant after it asked.             *)
(***************************************************************************)
EXTENDS Naturals, Sequences

CONSTANTS Readers,        \* the callers of interrogate()
          Sample,         \* the possible samples
          HistoryLength   \* the configured sample-history-length

CONSTANT NoEntity          \* the answer None

VARIABLES window,      \* the samples on record, oldest first
          available,   \* is the window on offer?
          asking,      \* the readers that wait for a snapshot
          answer       \* what each other reader has got from its last request

vars == <<window, available, asking, answer>>

Init == /\ window = <<>>
        /\ available = FALSE
        /\ asking = {}
        /\ answer = [r \in Readers |-> NoEntity]

\* A new sample enters the window; the oldest leaves it when it is full.
Publish(s) ==
    /\ window' = IF Len(window) < HistoryLength
                 THEN Append(window, s)
                 ELSE Append(Tail(window), s)
    /\ UNCHANGED <<available, asking, answer>>

Offer ==
    /\ window # <<>>
    /\ available' = TRUE
    /\ UNCHANGED <<window, asking, answer>>

Withdraw == available' = FALSE /\ UNCHANGED <<window, asking, answer>>

Refuse(r) ==
    /\ r \notin asking /\ ~available
    /\ answer' = [answer EXCEPT ![r] = NoEntity]
    /\ UNCHANGED <<window, available, asking>>

Ask(r) ==
    /\ r \notin asking /\ available
    /\ asking' = asking \cup {r}
    /\ answer' = [answer EXCEPT ![r] = NoEntity]
    /\ UNCHANGED <<window, available>>

Reply(r) ==
    /\ r \in asking /\ window # <<>>
    /\ asking' = asking \ {r}
    /\ answer' = [answer EXCEPT ![r] = window]
    /\ UNCHANGED <<window, available>>

Next == \/ \E s \in Sample : Publish(s)
        \/ Offer
        \/ Withdraw
        \/ \E r \in Readers : Refuse(r) \/ Ask(r) \/ Reply(r)

Spec == Init /\ [][Next]_vars
=============================================================================
