---------------------------- MODULE LightningSched ----------------------------
(***************************************************************************)
(* How the lightning algorithm, src/algo_lightning.c, chooses the links    *)
(* that a datagram is sent over.  It ranks the links by how late their     *)
(* packets have been, keeps some of them in use, the better half tagged    *)
(* FAST and the others SLOW, and sends a datagram over the FAST and over   *)
(* the SLOW link that was used least recently, or over one of both.  Once  *)
(* a window it swaps the worst link in use for the idle one that was used  *)
(* least recently, so that idle links are measured again.                  *)
(*                                                                         *)
(* Measures are arbitrary here; how they come about is in module           *)
(* LightningMonitor.  Links come and go as ClientLinks and Proxy describe. *)
(***************************************************************************)
EXTENDS Integers, FiniteSets

CONSTANTS
  TotalLinks,       (* total_links                                         *)
  FastCount,        (* fast_count                                          *)
  DisableScheduler, (* disable_scheduler                                   *)
  TickTock,         (* the values of tick_tock a run considers             *)
  Averages,         (* the average delays, in ms, that links can have      *)
  Flaky,            (* the links that may break                            *)
  MaxStale          (* bound: the connections that are dead and not known  *)
                    (* to be, beside a newer one on the same port          *)

Links == 0 .. (TotalLinks - 1)
INT16_MAX == 32767

ASSUME LightningAssumption ==
  /\ TotalLinks \in Nat \ {0} /\ TotalLinks <= 64   (* MAX_LINKS *)
  /\ FastCount \in Nat /\ 2 * FastCount <= TotalLinks
  /\ DisableScheduler \in BOOLEAN
  /\ TickTock \subseteq {"BOTH", "FAST", "SLOW"}
  /\ Averages \subseteq 0 .. INT16_MAX
  /\ Flaky \subseteq Links /\ MaxStale \in Nat

VARIABLES
  used,         (* status[l].used: "FAST", "SLOW" or "NOT_USED"            *)
  last,         (* status[l].last: 0 for never, else the rank of its time  *)
  active,       (* how many links the algorithm believes it has tagged     *)
  due,          (* a window has passed since last_update_used              *)
  sched_strat,  (* "BOTH", "FAST" or "SLOW"                                *)
  up,           (* the links whose URL leads to a descriptor               *)
  stale,        (* the connections tcp-write lists beside those            *)
  picked        (* the links selected for the last datagram                *)

vars == <<used, last, active, due, sched_strat, up, stale, picked>>

(* Scores below 0: nothing was measured, or there is no descriptor. *)
Unmeasured == -1
Broken     == -2

Tags == {"FAST", "SLOW", "NOT_USED"}

Tagged(u) == {l \in Links : u[l] # "NOT_USED"}

----------------------------------------------------------------------------
(* algo_lightning_update_stats                                             *)

(* compare_stat_entry_max compares these. *)
Key(s) == IF s < 0 THEN INT16_MAX - s ELSE s

(* The positions that the links can have in the array stats. *)
Orders ==
  {r \in [Links -> 1 .. TotalLinks] : \A l, m \in Links : r[l] = r[m] => l = m}

(* The rankings qsort can produce for the scores: ties in any order. *)
Rankings(score) ==
  IF DisableScheduler THEN {[l \in Links |-> l + 1]}
  ELSE {r \in Orders :
          \A l, m \in Links : r[l] < r[m] => Key(score[l]) <= Key(score[m])}

Scores ==
  {[l \in Links |-> IF l \in up THEN m[l] ELSE Broken] :
     m \in [up -> Averages \cup {Unmeasured}]}

----------------------------------------------------------------------------
(* algo_lightning_on_datagram, up to the selection.                        *)

Smaller(m, n) == IF m < n THEN m ELSE n

(* The n links of S that are ranked first, or all there are. *)
Best(S, rank, n) ==
  {l \in S : Cardinality({m \in S : rank[m] < rank[l]}) < n}

(* And the n that are ranked last. *)
Worst(S, rank, n) == Best(S, [l \in Links |-> TotalLinks - rank[l]], n)

(* Mutant: the links tagged already are counted again. *)
AdaptAny(T, rank, diff) ==
  IF diff >= 0 THEN T \cup Best(Links, rank, diff) ELSE T \ Worst(Links, rank, - diff)

(* "Adapt tags quantity to active links": the best ones that are idle are  *)
(* tagged, or the worst ones in use are not any more.  Here and in the next *)
(* two, T are the links that have a tag, which link_cat gives anew.        *)
Adapt(T, rank, diff) ==
  IF diff >= 0 THEN T \cup Best(Links \ T, rank, diff) ELSE T \ Worst(T, rank, - diff)

(* Mutant: no measure, and no descriptor, pass for the best score. *)
RetainedRaw(s) == s

(* The score that counts against a link in use. *)
Retained(s) == IF s < 0 THEN 32768 ELSE s

(* The link in use that is to leave: the worst, the last of equals. *)
Leaving(T, rank, score) ==
  CHOOSE l \in T : \A m \in T :
    \/ Retained(score[m]) < Retained(score[l])
    \/ Retained(score[m]) = Retained(score[l]) /\ rank[m] <= rank[l]

(* The idle links, not broken, that may be the one to enter. *)
Candidates(T, score) == {l \in Links \ T : score[l] # Broken}

(* Mutant: the best of the idle links. *)
EnteringBest(T, rank, score) ==
  CHOOSE l \in Candidates(T, score) : \A m \in Candidates(T, score) : rank[l] <= rank[m]

(* The one used least recently, the first of equals. *)
Entering(T, rank, score) ==
  CHOOSE l \in Candidates(T, score) : \A m \in Candidates(T, score) :
    last[l] < last[m] \/ (last[l] = last[m] /\ rank[l] <= rank[m])

(* algo_lightning_update_used does something. *)
Rotates(T, score) == due /\ T # {} /\ Candidates(T, score) # {}

update_used(T, rank, score) ==
  IF Rotates(T, score) THEN (T \ {Leaving(T, rank, score)}) \cup {Entering(T, rank, score)}
                       ELSE T

(* algo_lightning_link_cat *)
link_cat(T, rank, fasts) ==
  LET best == Best(T, rank, fasts)
  IN  [l \in Links |-> IF l \in best THEN "FAST" ELSE IF l \in T THEN "SLOW" ELSE "NOT_USED"]

(* Mutant: as many as are listed. *)
TargetUncapped == Cardinality(up) + stale

(* How many links to tag: tcp-write lists stale connections as well. *)
Target == Smaller(2 * FastCount, Cardinality(up) + stale)

----------------------------------------------------------------------------
(* The selection, and send_message.                                        *)

(* The links of a group that were used least recently: the first one, or   *)
(* none when no link is in the group.                                      *)
Oldest(u, tag, t) ==
  {l \in Links : /\ u[l] = tag
                 /\ \A m \in Links : u[m] = tag => t[l] < t[m] \/ (t[l] = t[m] /\ l <= m)}

(* set_now(last), for the links in S. *)
Touch(t, S) ==
  [l \in Links |-> IF l \in S THEN TotalLinks
                   ELSE IF t[l] > 0 /\ \E m \in S : t[m] < t[l] THEN t[l] - 1 ELSE t[l]]

(* schedule_group_target_trans *)
NextStrat == CASE sched_strat = "BOTH" -> "BOTH"
               [] sched_strat = "FAST" -> "SLOW"
               [] sched_strat = "SLOW" -> "FAST"

(* The tags that the links get once T have one, for a ranking. *)
Categorised(T, rank, score) ==
  [used |-> link_cat(update_used(T, rank, score), rank, Target \div 2),
   due  |-> due /\ ~ Rotates(T, score)]

(* What the measures can lead to. *)
Outcomes ==
  UNION {UNION {{Categorised(T, rank, score) :
                    T \in {Adapt(Tagged(used), rank, Target - active)}} :
                  rank \in Rankings(score)} : score \in Scores}

OnDatagram ==
  /\ active' = Target
  /\ sched_strat' = NextStrat
  /\ UNCHANGED <<up, stale>>
  /\ \E o \in Outcomes :
       LET fast == IF sched_strat \in {"BOTH", "FAST"} THEN Oldest(o.used, "FAST", last) ELSE {}
           slow == IF sched_strat \in {"BOTH", "SLOW"} THEN Oldest(o.used, "SLOW", last) ELSE {}
       IN  /\ used' = o.used /\ due' = o.due
           /\ picked' = fast \cup slow
           /\ last' = Touch(Touch(last, fast), slow)

----------------------------------------------------------------------------

Init ==
  /\ used = [l \in Links |-> "NOT_USED"]
  /\ last = [l \in Links |-> 0]
  /\ active = 0 /\ due = TRUE
  /\ sched_strat \in TickTock
  /\ up = {} /\ stale = 0
  /\ picked = {}

WindowPasses == ~ due /\ due' = TRUE
                /\ UNCHANGED <<used, last, active, sched_strat, up, stale, picked>>

LinkUp == /\ \E l \in Links \ up : up' = up \cup {l}
          /\ UNCHANGED <<used, last, active, due, sched_strat, stale, picked>>

LinkDown == /\ \E l \in up \cap Flaky : up' = up \ {l}
            /\ UNCHANGED <<used, last, active, due, sched_strat, stale, picked>>

(* A link is made anew before its old connection is known to be dead. *)
ConnectAgain == /\ up # {} /\ stale < MaxStale /\ stale' = stale + 1
                /\ UNCHANGED <<used, last, active, due, sched_strat, up, picked>>

StaleGone == /\ stale > 0 /\ stale' = stale - 1
             /\ UNCHANGED <<used, last, active, due, sched_strat, up, picked>>

Next == OnDatagram \/ WindowPasses \/ LinkUp \/ LinkDown \/ ConnectAgain \/ StaleGone

Spec == Init /\ [][Next]_vars

(* Datagrams keep coming, and time passes. *)
FairSpec == Spec /\ WF_vars(OnDatagram) /\ WF_vars(WindowPasses)

----------------------------------------------------------------------------
(* Properties.                                                             *)

TypeOK ==
  /\ used \in [Links -> Tags] /\ last \in [Links -> 0 .. TotalLinks]
  /\ active \in 0 .. TotalLinks /\ due \in BOOLEAN
  /\ sched_strat \in {"BOTH", "FAST", "SLOW"}
  /\ up \in SUBSET Links /\ stale \in 0 .. MaxStale
  /\ picked \in SUBSET Links

(* The tags are only ever adjusted by differences; however links come and  *)
(* go between two datagrams, their number stays the one the algorithm      *)
(* believes, half of it FAST.  A miscount would never be corrected.        *)
TagsMatchActive ==
  /\ Cardinality(Tagged(used)) = active
  /\ Cardinality({l \in Links : used[l] = "FAST"}) = active \div 2

(* Links stop coming and going, and no stale connection is left. *)
Settles == <>[](stale = 0) /\ <>[][up' = up]_up

(* No link is forgotten: once links stop coming and going, each one that   *)
(* is up is used again and again, so that a bad measure, or none, never     *)
(* keeps it out for ever.                                                   *)
EveryLinkProbed ==
  FastCount > 0 /\ Settles =>
    \A l \in Links : <>[](l \in up) => []<>(l \in picked)

(* After whatever failures, once links stop coming and going and one is    *)
(* up, every datagram leaves over a link, and none is given to a link that  *)
(* is down.  Between a failure and the rotations that untag the links it    *)
(* took, datagrams are given to links that are down while others are idle.  *)
Recovers ==
  FastCount > 0 /\ Settles /\ <>[](up # {}) => <>[](picked # {} /\ picked \subseteq up)

============================================================================
