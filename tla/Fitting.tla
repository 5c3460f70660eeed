------------------------------ MODULE Fitting ------------------------------
(***************************************************************************)
(* Fitting of mom/Policy/RPPolicy.py: how well a VM does, as the share of  *)
(* its ideal progress that it makes.  The ideal is where a regression of   *)
(* the averaged progress over the averaged page faults meets zero faults;  *)
(* it needs WINDOW averages, and is any number here.  The samples kept     *)
(* until then are rated when the first ideal is known, the later ones one  *)
(* by one.  (The page faults' arrays are the regression's only input, run  *)
(* along with those of the progress, and are left out.)                    *)
(***************************************************************************)
EXTENDS Integers, Sequences, SequencesExt

CONSTANTS AVE_LEN, WINDOW,
          Progress,    \* the samples: cpu time used in user mode
          Ideals,      \* what the regression may yield
          MaxSamples   \* bound

VARIABLES users,       \* attributes['users']
          ave_users,   \* attributes['ave_users'], times AVE_LEN
          standard_users, ins_speed,   \* ins_speed[i]: the pair that is divided
          status,
          ideals       \* history: for each call of estimated, what it yielded

Init ==
    /\ users = <<>> /\ ave_users = <<>> /\ standard_users = <<>> /\ ins_speed = <<>>
    /\ status = 1 /\ ideals = <<>>

Total(s) == FoldLeft(LAMBDA n, x : n + x, 0, s)

\* mean_value: the slice ends before the newest sample, and at first has one
\* sample less than it is divided by.
Slice(us) == SubSeq(us, IF Len(us) > AVE_LEN THEN Len(us) - AVE_LEN ELSE 1, Len(us) - 1)
MeanValue(us) == IF Len(us) >= AVE_LEN THEN <<Total(Slice(us))>> ELSE <<>>

\* getSpeed, before and after WINDOW averages.
Warm(aves) == Len(aves) >= WINDOW

\* appendStandard, for each of the samples: a sample above the ideal is ideal,
\* and one of no progress at all, where that is ideal, does as well.
Standard(ideal, u) == IF ideal < u THEN u ELSE ideal
Speed(ideal, u) == IF Standard(ideal, u) # 0 THEN <<u, Standard(ideal, u)>> ELSE <<1, 1>>
AppendStandard(ideal, us) ==
    /\ standard_users' = standard_users \o [i \in DOMAIN us |-> Standard(ideal, us[i])]
    /\ ins_speed' = ins_speed \o [i \in DOMAIN us |-> Speed(ideal, us[i])]

\* Deviation: the samples of the beginning are rated in every round.
RatedAgain(us) == us \o <<Last(us)>>

\* In the round in which there is an ideal at last, all samples are rated, and
\* then the newest, which is one of them, again.
Rated(us) == (IF status = 1 THEN us ELSE <<>>) \o <<Last(us)>>

\* update, then getSpeed: the speed is the mean of ins_speed, or None.
Update(u) ==
    /\ Len(users) < MaxSamples /\ users' = Append(users, u)
    /\ ave_users' = ave_users \o MeanValue(users')
    /\ IF Warm(ave_users')
       THEN /\ status' = 2
            /\ \E ideal \in Ideals :
                  ideals' = Append(ideals, ideal) /\ AppendStandard(ideal, Rated(users'))
       ELSE UNCHANGED <<standard_users, ins_speed, status, ideals>>

Next == \E u \in Progress : Update(u)
Spec == Init /\ [][Next]_<<users, ave_users, standard_users, ins_speed, status, ideals>>
-----------------------------------------------------------------------------
\* Once there is a speed it is a share, in 0 .. 1, to which every sample since
\* the VM was seen first counts, and none twice but the newest of the round in
\* which the first ideal was known; a sample is rated by the first ideal after
\* it.
EverySampleIsRated ==
    LET warmed == Len(users) - Len(ideals) + 1
        due(i) == IF i <= warmed THEN ideals[1] ELSE ideals[i - warmed + 1]
        at(k) == IF k <= warmed THEN k ELSE k - 1      \* the sample of ins_speed[k]
    IN IF ideals = <<>> THEN ins_speed = <<>>
       ELSE /\ warmed = AVE_LEN + WINDOW - 1
            /\ Len(ins_speed) = Len(users) + 1
            /\ \A k \in DOMAIN ins_speed :
                  LET r == ins_speed[k]  u == users[at(k)] IN
                  /\ 0 <= r[1] /\ r[1] <= r[2] /\ r[2] > 0
                  /\ r[1] * Standard(due(at(k)), u) = u * r[2]
=============================================================================
