---------------------------- MODULE Gamification ----------------------------
(* award_xp and update_streak of one learner, called by several requests   *)
(* at once (app/api/services/gamification_service.py), each in a session   *)
(* and a transaction of its own (app/api/routers/gamification.py), READ    *)
(* COMMITTED.  Learners share nothing but the catalogue of badges, which   *)
(* is fixed.                                                               *)
(*                                                                         *)
(* The ORM decides when things are written.  What a call changes of the    *)
(* learner stays in its memory until the first query of                    *)
(* _check_and_award_badges flushes it as an UPDATE of the changed columns; *)
(* from there to its commit the call holds the learner's row.              *)
EXTENDS Integers

CONSTANTS
    Calls,          \* the requests that may be in progress at once
    StreakBadges,   \* badges for a number of days,
    XPBadges,       \* for an amount of XP,
    OtherBadges,    \* and for mastery or topics, which nothing here changes
    threshold,      \* what the first two kinds take
    Amounts,        \* what the configuration and the daily cap may award
    MaxDay,         \* bound on the days of a behaviour
    MaxXP           \* bound on a learner's XP

Badges == StreakBadges \cup XPBadges \cup OtherBadges

ASSUME BadgesAssumption ==
    /\ StreakBadges \cap XPBadges = {}
    /\ (StreakBadges \cup XPBadges) \cap OtherBadges = {}
    /\ threshold \in [StreakBadges \cup XPBadges -> Nat \ {0}]
ASSUME BoundsAssumption ==
    /\ Amounts \subseteq Nat \ {0}
    /\ MaxDay \in Nat /\ MaxXP \in Nat

VARIABLES
    day,             \* the date
    learner,         \* the committed row of learners
    learner_badges,  \* how many committed rows the learner has of each badge
    pc, op,          \* where a call is, and which of the two it is
    began,           \* the day its transaction, and its "today", began
    mem,             \* the learner object of its session
    dirty,           \* the columns the call's UPDATE sets
    todo, earned     \* badges it has still to look at, and has inserted

callVars == <<pc, op, began, mem, dirty, todo, earned>>
gamificationVars == <<day, learner, learner_badges, callVars>>

Learner == [total_xp : 0..MaxXP, streak_days : Nat, last_active_at : 0..MaxDay]
Columns == {"total_xp", "streak_days", "last_active_at"}

(* The row of a new learner: last_active_at has a default of its own.      *)
NewLearner == [total_xp |-> 0, streak_days |-> 0, last_active_at |-> 0]

GamificationTypeOK ==
    /\ day \in 0..MaxDay
    /\ learner \in Learner
    /\ learner.last_active_at <= day
    /\ learner_badges \in [Badges -> Nat]
    /\ pc \in [Calls -> {"idle", "loaded", "badges"}]
    /\ op \in [Calls -> {"award", "streak"}]
    /\ began \in [Calls -> 0..MaxDay]
    /\ mem \in [Calls -> Learner]
    /\ dirty \in [Calls -> SUBSET Columns]
    /\ todo \in [Calls -> SUBSET Badges]
    /\ earned \in [Calls -> SUBSET Badges]

GamificationInit ==
    /\ day = 0
    /\ learner = NewLearner
    /\ learner_badges = [b \in Badges |-> 0]
    /\ pc = [c \in Calls |-> "idle"]
    /\ op = [c \in Calls |-> "award"]
    /\ began = [c \in Calls |-> 0]
    /\ mem = [c \in Calls |-> NewLearner]
    /\ dirty = [c \in Calls |-> {}]
    /\ todo = [c \in Calls |-> {}]
    /\ earned = [c \in Calls |-> {}]

-----------------------------------------------------------------------------
(* session.get: the row as it is committed now.                            *)
Load(c, o) ==
    /\ pc[c] = "idle"
    /\ pc' = [pc EXCEPT ![c] = "loaded"]
    /\ op' = [op EXCEPT ![c] = o]
    /\ began' = [began EXCEPT ![c] = day]
    /\ mem' = [mem EXCEPT ![c] = learner]
    /\ UNCHANGED <<day, learner, learner_badges, dirty, todo, earned>>

(* The end of a call, however it ends.                                     *)
Return(c) ==
    /\ pc' = [pc EXCEPT ![c] = "idle"]
    /\ op' = [op EXCEPT ![c] = "award"]
    /\ began' = [began EXCEPT ![c] = 0]
    /\ mem' = [mem EXCEPT ![c] = NewLearner]
    /\ dirty' = [dirty EXCEPT ![c] = {}]
    /\ todo' = [todo EXCEPT ![c] = {}]
    /\ earned' = [earned EXCEPT ![c] = {}]

(* award_xp: the daily cap is reached, which is told without any write.    *)
Capped(c) ==
    /\ pc[c] = "loaded"
    /\ op[c] = "award"
    /\ Return(c)
    /\ UNCHANGED <<day, learner, learner_badges>>

HoldsLearner(c) == pc[c] = "badges"

(* Seeded fault: the badges are read before the flush takes the row.       *)
FlushUnlocked(c, object, columns) ==
    /\ pc[c] = "loaded"
    /\ pc' = [pc EXCEPT ![c] = "badges"]
    /\ mem' = [mem EXCEPT ![c] = object]
    /\ dirty' = [dirty EXCEPT ![c] = columns]
    /\ todo' = [todo EXCEPT ![c] = Badges]
    /\ UNCHANGED <<day, learner, learner_badges, op, began, earned>>

(* The autoflush: the UPDATE waits until nobody else holds the row.        *)
Flush(c, object, columns) ==
    /\ pc[c] = "loaded"
    /\ \A d \in Calls : ~HoldsLearner(d)
    /\ pc' = [pc EXCEPT ![c] = "badges"]
    /\ mem' = [mem EXCEPT ![c] = object]
    /\ dirty' = [dirty EXCEPT ![c] = columns]
    /\ todo' = [todo EXCEPT ![c] = Badges]
    /\ UNCHANGED <<day, learner, learner_badges, op, began, earned>>

(* learner.total_xp += total_awarded.  last_active_at moves with it: the   *)
(* column's onupdate is now(), the start of the transaction.               *)
AwardXP(c, n) ==
    /\ op[c] = "award"
    /\ mem[c].total_xp + n <= MaxXP
    /\ Flush(c, [mem[c] EXCEPT !.total_xp = @ + n, !.last_active_at = began[c]],
             {"total_xp", "last_active_at"})

(* One missed day is forgiven; more than one starts the streak anew.       *)
NextStreak(streak, days_diff) ==
    IF days_diff = 0 THEN streak
    ELSE IF days_diff \in {1, 2} THEN streak + 1
    ELSE 1

(* update_streak.  A streak that stays as it was loaded is not in the      *)
(* UPDATE.                                                                 *)
UpdateStreak(c) ==
    LET days == NextStreak(mem[c].streak_days, began[c] - mem[c].last_active_at)
    IN  /\ op[c] = "streak"
        /\ Flush(c, [mem[c] EXCEPT !.streak_days = days,
                                   !.last_active_at = began[c]],
                 {"last_active_at"} \cup
                 (IF days = mem[c].streak_days THEN {} ELSE {"streak_days"}))

Reached(b, l) ==
    IF b \in StreakBadges THEN l.streak_days >= threshold[b]
    ELSE l.total_xp >= threshold[b]

(* Seeded fault: the criteria read the row and not the object.             *)
EvaluateCommitted(c, b) ==
    IF b \in OtherBadges THEN BOOLEAN ELSE {Reached(b, learner)}

(* The criteria look at the object in memory, or, for a badge of another   *)
(* kind, at tables that no call here writes.                               *)
Evaluate(c, b) ==
    IF b \in OtherBadges THEN BOOLEAN ELSE {Reached(b, mem[c])}

(* One round of the loop over the catalogue.  _has_badge reads committed   *)
(* rows, and raises (Fail) when there are two.                             *)
CheckBadge(c, b) ==
    /\ HoldsLearner(c)
    /\ b \in todo[c]
    /\ learner_badges[b] <= 1
    /\ todo' = [todo EXCEPT ![c] = @ \ {b}]
    /\ \E award \in IF learner_badges[b] = 0 THEN Evaluate(c, b) ELSE {FALSE} :
          earned' = [earned EXCEPT ![c] = IF award THEN @ \cup {b} ELSE @]
    /\ UNCHANGED <<day, learner, learner_badges, pc, op, began, mem, dirty>>

(* The row under the UPDATE of a call: a column that it does not set keeps *)
(* what others have committed meanwhile.                                   *)
Updated(c) ==
    LET set == dirty[c]
    IN  [total_xp |-> IF "total_xp" \in set THEN mem[c].total_xp
                      ELSE learner.total_xp,
         streak_days |-> IF "streak_days" \in set THEN mem[c].streak_days
                         ELSE learner.streak_days,
         last_active_at |-> IF "last_active_at" \in set THEN mem[c].last_active_at
                            ELSE learner.last_active_at]

(* Row and badges are committed together.                                  *)
Commit(c) ==
    /\ HoldsLearner(c)
    /\ todo[c] = {}
    /\ learner' = Updated(c)
    /\ learner_badges' = [b \in Badges |->
                      learner_badges[b] + (IF b \in earned[c] THEN 1 ELSE 0)]
    /\ Return(c)
    /\ UNCHANGED day

(* Seeded fault: the badges are committed on their own.                    *)
FailAfterBadges(c) ==
    /\ pc[c] # "idle"
    /\ Return(c)
    /\ learner_badges' = [b \in Badges |->
                      learner_badges[b] + (IF b \in earned[c] THEN 1 ELSE 0)]
    /\ UNCHANGED <<day, learner>>

(* Any await may raise: nothing of the transaction stays.                  *)
Fail(c) ==
    /\ pc[c] # "idle"
    /\ Return(c)
    /\ UNCHANGED <<day, learner, learner_badges>>

Midnight ==
    /\ day < MaxDay
    /\ day' = day + 1
    /\ UNCHANGED <<learner, learner_badges, callVars>>

GamificationNext ==
    \/ \E c \in Calls :
          \/ \E o \in {"award", "streak"} : Load(c, o)
          \/ Capped(c)
          \/ \E n \in Amounts : AwardXP(c, n)
          \/ UpdateStreak(c)
          \/ \E b \in Badges : CheckBadge(c, b)
          \/ Commit(c)
          \/ Fail(c)
    \/ Midnight

GamificationSpec == GamificationInit /\ [][GamificationNext]_gamificationVars

-----------------------------------------------------------------------------
(* A badge is given once.  No key forbids a second row and _has_badge      *)
(* reads before the insert; only the row lock of the flush before it keeps *)
(* two calls apart, and a second row would make every later call raise.    *)
BadgeAtMostOnce == \A b \in Badges : learner_badges[b] <= 1

(* What the learner's row has reached, the learner has been given: by      *)
(* whichever call, however stale the object it computed with.              *)
MilestonesAwarded ==
    \A b \in StreakBadges \cup XPBadges :
        Reached(b, learner) => learner_badges[b] >= 1

(* And a badge is given only together with the row that has reached it,    *)
(* also by a call that loaded its learner before others changed it.        *)
BadgesDeserved ==
    [][\A b \in StreakBadges \cup XPBadges :
          learner_badges'[b] > learner_badges[b] => Reached(b, learner')
      ]_gamificationVars

=============================================================================
