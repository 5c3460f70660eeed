----------------------------- MODULE MCMonitor -----------------------------
(* Instances of Monitor for TLC. *)
EXTENDS Monitor

\* Two collectors that both can report the mandatory key "used"; the second
\* one declares it as optional, beside an optional key of its own.
TwoFields == <<{"used"}, {}>>
TwoOptional == <<{}, {"used", "swap"}>>

=============================================================================
