-------------------------- MODULE GamificationProofs --------------------------
(* Theorems about Gamification, for any calls, badges, amounts and bounds. *)
(* The strengthening says what the row lock gives: one call at a time      *)
(* holds the learner, nobody has the badges it is about to give, and what  *)
(* it has not changed of the learner has had its badges before.  Then      *)
(* theorems about LearnerRecords and RateLimit, of the same run.           *)
EXTENDS Gamification, LearnerRecords, RateLimit, FiniteSetTheorems, TLAPS

Counted == StreakBadges \cup XPBadges

(* No call has a date from the future.                                     *)
Dated == \A c \in Calls : began[c] <= day /\ mem[c].last_active_at <= day

OneHolder ==
    \A c, d \in Calls : HoldsLearner(c) /\ HoldsLearner(d) => c = d

(* What a call has loaded was committed, and so has its badges.            *)
LoadedHeld ==
    \A c \in Calls : \A b \in Counted :
        pc[c] = "loaded" /\ Reached(b, mem[c]) => learner_badges[b] >= 1

NothingEarnedYet == \A c \in Calls : ~HoldsLearner(c) => earned[c] = {}

(* The column that a badge goes by.                                        *)
Sets(c, b) ==
    IF b \in StreakBadges THEN "streak_days" \in dirty[c]
    ELSE "total_xp" \in dirty[c]

HolderBadges ==
    \A c \in Calls : HoldsLearner(c) =>
        /\ \A b \in earned[c] : b \notin todo[c] /\ learner_badges[b] = 0
        /\ \A b \in Counted :
              /\ b \in earned[c] => Reached(b, mem[c])
              /\ b \notin todo[c] /\ Reached(b, mem[c]) =>
                    b \in earned[c] \/ learner_badges[b] >= 1
              /\ ~Sets(c, b) /\ Reached(b, mem[c]) => learner_badges[b] >= 1

Strengthening ==
    /\ OneHolder
    /\ LoadedHeld
    /\ NothingEarnedYet
    /\ HolderBadges
    /\ BadgeAtMostOnce
    /\ MilestonesAwarded

GamificationInv == GamificationTypeOK /\ Dated /\ Strengthening

-----------------------------------------------------------------------------
LEMMA InitEstablishesGamificationInv == GamificationInit => GamificationInv
<1> SUFFICES ASSUME GamificationInit PROVE GamificationInv
  OBVIOUS
<1>1. NewLearner \in Learner
  BY BoundsAssumption DEF NewLearner, Learner
<1>2. GamificationTypeOK
  BY <1>1, BoundsAssumption DEF GamificationInit, GamificationTypeOK, NewLearner
<1>3. \A b \in Counted : ~Reached(b, learner)
  BY BadgesAssumption DEF GamificationInit, NewLearner, Reached, Counted
<1>4. Dated
  <2> SUFFICES ASSUME NEW c \in Calls
               PROVE  began[c] <= day /\ mem[c].last_active_at <= day
    BY DEF Dated
  <2>1. began[c] = 0 /\ mem[c].last_active_at = 0 /\ day = 0
    BY DEF GamificationInit, NewLearner
  <2> QED
    BY <2>1
<1>5. Strengthening
  BY <1>3 DEF GamificationInit, Strengthening, OneHolder, LoadedHeld,
              NothingEarnedYet, HolderBadges, BadgeAtMostOnce, MilestonesAwarded,
              HoldsLearner, Counted
<1> QED
  BY <1>2, <1>4, <1>5 DEF GamificationInv

(* A call that returns leaves what the others rely on.                     *)
LEMMA ReturnKeeps ==
    ASSUME GamificationInv, NEW c \in Calls, Return(c)
    PROVE  /\ pc' \in [Calls -> {"idle", "loaded", "badges"}]
           /\ op' \in [Calls -> {"award", "streak"}]
           /\ began' \in [Calls -> 0..MaxDay]
           /\ mem' \in [Calls -> Learner]
           /\ dirty' \in [Calls -> SUBSET Columns]
           /\ todo' \in [Calls -> SUBSET Badges]
           /\ earned' \in [Calls -> SUBSET Badges]
           /\ \A d \in Calls : began'[d] <= day /\ mem'[d].last_active_at <= day
           /\ pc'[c] = "idle" /\ earned'[c] = {}
           /\ \A d \in Calls \ {c} :
                  /\ pc'[d] = pc[d] /\ mem'[d] = mem[d] /\ dirty'[d] = dirty[d]
                  /\ todo'[d] = todo[d] /\ earned'[d] = earned[d]
<1>1. NewLearner \in Learner /\ 0 \in 0..MaxDay
  BY BoundsAssumption DEF NewLearner, Learner
<1>2. \A d \in Calls : began'[d] <= day /\ mem'[d].last_active_at <= day
  <2> SUFFICES ASSUME NEW d \in Calls
               PROVE  began'[d] <= day /\ mem'[d].last_active_at <= day
    OBVIOUS
  <2>1. CASE d = c
    BY <2>1, BoundsAssumption DEF Return, NewLearner, GamificationInv,
                                  GamificationTypeOK
  <2>2. CASE d # c
    BY <2>2 DEF Return, GamificationInv, GamificationTypeOK, Dated
  <2> QED
    BY <2>1, <2>2
<1> QED
  BY <1>1, <1>2 DEF GamificationInv, GamificationTypeOK, Return

(* When a call ends without a commit, nothing has happened.                *)
LEMMA RollbackKeepsInv ==
    ASSUME GamificationInv, NEW c \in Calls, Return(c),
           UNCHANGED <<day, learner, learner_badges>>
    PROVE  GamificationInv'
<1>1. GamificationTypeOK' /\ Dated'
  BY ReturnKeeps DEF GamificationInv, GamificationTypeOK, Dated
<1>2. /\ pc'[c] = "idle" /\ earned'[c] = {}
      /\ \A d \in Calls \ {c} :
             /\ pc'[d] = pc[d] /\ mem'[d] = mem[d] /\ dirty'[d] = dirty[d]
             /\ todo'[d] = todo[d] /\ earned'[d] = earned[d]
  BY ReturnKeeps
<1>3. OneHolder' /\ LoadedHeld' /\ NothingEarnedYet'
  BY <1>2 DEF GamificationInv, Strengthening, OneHolder, LoadedHeld,
              NothingEarnedYet, HoldsLearner, Reached
<1>4. HolderBadges'
  BY <1>2 DEF GamificationInv, Strengthening, HolderBadges, HoldsLearner, Reached,
              Sets
<1>5. BadgeAtMostOnce' /\ MilestonesAwarded'
  BY DEF GamificationInv, Strengthening, BadgeAtMostOnce, MilestonesAwarded, Reached
<1> QED
  BY <1>1, <1>3, <1>4, <1>5 DEF GamificationInv, Strengthening

LEMMA LoadKeepsInv ==
    ASSUME GamificationInv, NEW c \in Calls, NEW o \in {"award", "streak"},
           Load(c, o)
    PROVE  GamificationInv'
<1>1. GamificationTypeOK' /\ Dated'
  BY BoundsAssumption DEF GamificationInv, GamificationTypeOK, Dated, Load
<1>2. /\ pc'[c] = "loaded" /\ mem'[c] = learner /\ ~HoldsLearner(c)
      /\ \A d \in Calls \ {c} : pc'[d] = pc[d] /\ mem'[d] = mem[d]
      /\ UNCHANGED <<learner, learner_badges, dirty, todo, earned>>
  BY DEF GamificationInv, GamificationTypeOK, Load, HoldsLearner
<1>3. OneHolder' /\ NothingEarnedYet'
  BY <1>2 DEF GamificationInv, Strengthening, OneHolder, NothingEarnedYet,
              HoldsLearner
<1>4. LoadedHeld'
  BY <1>2 DEF GamificationInv, Strengthening, LoadedHeld, MilestonesAwarded,
              Counted, Reached
<1>5. HolderBadges'
  BY <1>2 DEF GamificationInv, Strengthening, HolderBadges, HoldsLearner, Reached,
              Sets
<1>6. BadgeAtMostOnce' /\ MilestonesAwarded'
  BY <1>2 DEF GamificationInv, Strengthening, BadgeAtMostOnce, MilestonesAwarded,
              Reached
<1> QED
  BY <1>1, <1>3, <1>4, <1>5, <1>6 DEF GamificationInv, Strengthening

(* A flush takes the row with an object that differs from what was loaded  *)
(* in the columns of the UPDATE at most.                                   *)
LEMMA FlushKeepsInv ==
    ASSUME GamificationInv, NEW c \in Calls, NEW object \in Learner,
           NEW columns \in SUBSET Columns, Flush(c, object, columns),
           object.last_active_at = began[c],
           "total_xp" \in columns \/ object.total_xp = mem[c].total_xp,
           "streak_days" \in columns \/ object.streak_days = mem[c].streak_days
    PROVE  GamificationInv'
<1>1. GamificationTypeOK' /\ Dated'
  BY DEF GamificationInv, GamificationTypeOK, Dated, Flush
<1>2. /\ pc[c] = "loaded" /\ mem'[c] = object /\ dirty'[c] = columns
      /\ todo'[c] = Badges /\ earned'[c] = {} /\ earned' = earned
      /\ \A d \in Calls \ {c} :
             /\ pc'[d] = pc[d] /\ mem'[d] = mem[d] /\ dirty'[d] = dirty[d]
             /\ todo'[d] = todo[d]
      /\ \A d \in Calls : HoldsLearner(d)' <=> d = c
      /\ UNCHANGED <<learner, learner_badges>>
  BY DEF GamificationInv, GamificationTypeOK, Flush, Strengthening,
         NothingEarnedYet, HoldsLearner
<1>3. OneHolder' /\ NothingEarnedYet'
  BY <1>2 DEF GamificationInv, Strengthening, OneHolder, NothingEarnedYet, Flush
<1>4. LoadedHeld'
  BY <1>2 DEF GamificationInv, Strengthening, LoadedHeld, HoldsLearner, Reached
<1>5. HolderBadges'
  <2> SUFFICES ASSUME NEW b \in Counted, ~Sets(c, b)', Reached(b, object)
               PROVE  learner_badges[b] >= 1
    BY <1>2 DEF HolderBadges, Badges, Counted, Reached
  <2>1. Reached(b, mem[c])
    BY <1>2 DEF Sets, Reached
  <2> QED
    BY <1>2, <2>1 DEF GamificationInv, Strengthening, LoadedHeld
<1>6. BadgeAtMostOnce' /\ MilestonesAwarded'
  BY <1>2 DEF GamificationInv, Strengthening, BadgeAtMostOnce, MilestonesAwarded,
              Reached
<1> QED
  BY <1>1, <1>3, <1>4, <1>5, <1>6 DEF GamificationInv, Strengthening

LEMMA AwardXPKeepsInv ==
    ASSUME GamificationInv, NEW c \in Calls, NEW n \in Amounts, AwardXP(c, n)
    PROVE  GamificationInv'
<1> DEFINE object == [mem[c] EXCEPT !.total_xp = @ + n, !.last_active_at = began[c]]
<1>1. mem[c] \in Learner /\ began[c] \in 0..MaxDay
  BY DEF GamificationInv, GamificationTypeOK
<1>2. object.streak_days = mem[c].streak_days /\ object.last_active_at = began[c]
  BY <1>1 DEF Learner
<1>3. mem[c].total_xp + n \in 0..MaxXP
  BY <1>1, BoundsAssumption DEF AwardXP, Learner
<1>4. object \in Learner
  BY <1>1, <1>3 DEF Learner
<1>5. {"total_xp", "last_active_at"} \in SUBSET Columns
  BY DEF Columns
<1>6. Flush(c, object, {"total_xp", "last_active_at"})
  BY DEF AwardXP
<1> QED
  BY <1>2, <1>4, <1>5, <1>6, FlushKeepsInv

LEMMA UpdateStreakKeepsInv ==
    ASSUME GamificationInv, NEW c \in Calls, UpdateStreak(c)
    PROVE  GamificationInv'
<1> DEFINE streak == NextStreak(mem[c].streak_days, began[c] - mem[c].last_active_at)
           object == [mem[c] EXCEPT !.streak_days = streak, !.last_active_at = began[c]]
           columns == {"last_active_at"} \cup
                      (IF streak = mem[c].streak_days THEN {} ELSE {"streak_days"})
<1>1. mem[c] \in Learner /\ began[c] \in 0..MaxDay
  BY DEF GamificationInv, GamificationTypeOK
<1>2. streak \in Nat
  BY <1>1 DEF NextStreak, Learner
<1>3. object \in Learner /\ object.total_xp = mem[c].total_xp
      /\ object.streak_days = streak /\ object.last_active_at = began[c]
  BY <1>1, <1>2 DEF Learner
<1>4. columns \in SUBSET Columns
  BY DEF Columns
<1>5. "streak_days" \in columns \/ object.streak_days = mem[c].streak_days
  BY <1>3
<1>6. Flush(c, object, columns)
  BY DEF UpdateStreak
<1> HIDE DEF object, columns
<1> QED
  BY <1>3, <1>4, <1>5, <1>6, FlushKeepsInv

(* A badge is looked at while no other call can commit one.                *)
LEMMA CheckBadgeKeepsInv ==
    ASSUME GamificationInv, NEW c \in Calls, NEW b \in Badges, CheckBadge(c, b)
    PROVE  GamificationInv'
<1>1. PICK award \in IF learner_badges[b] = 0 THEN Evaluate(c, b) ELSE {FALSE} :
          earned' = [earned EXCEPT ![c] = IF award THEN @ \cup {b} ELSE @]
  BY DEF CheckBadge
<1>2. /\ HoldsLearner(c) /\ b \in todo[c]
      /\ todo'[c] = todo[c] \ {b}
      /\ earned'[c] = IF award THEN earned[c] \cup {b} ELSE earned[c]
      /\ \A d \in Calls \ {c} : todo'[d] = todo[d] /\ earned'[d] = earned[d]
      /\ UNCHANGED <<learner, learner_badges, pc, mem, dirty>>
  BY <1>1 DEF CheckBadge, GamificationInv, GamificationTypeOK
<1>3. GamificationTypeOK' /\ Dated'
  BY <1>1 DEF CheckBadge, GamificationInv, GamificationTypeOK, Dated
<1>4. /\ award => learner_badges[b] = 0
      /\ b \in Counted /\ learner_badges[b] = 0 =>
             award = Reached(b, mem[c])
  BY <1>1, BadgesAssumption DEF Evaluate, Counted
<1>5. OneHolder' /\ NothingEarnedYet' /\ LoadedHeld'
  BY <1>2 DEF GamificationInv, Strengthening, OneHolder, NothingEarnedYet,
              LoadedHeld, HoldsLearner, Reached
<1>6. HolderBadges'
  <2> SUFFICES ASSUME NEW d \in Calls, HoldsLearner(d)'
               PROVE  /\ \A q \in earned'[d] : q \notin todo'[d] /\ learner_badges'[q] = 0
                      /\ \A q \in Counted :
                            /\ q \in earned'[d] => Reached(q, mem[d])'
                            /\ q \notin todo'[d] /\ Reached(q, mem[d])' =>
                                  q \in earned'[d] \/ learner_badges'[q] >= 1
                            /\ ~Sets(d, q)' /\ Reached(q, mem[d])' =>
                                  learner_badges'[q] >= 1
    BY DEF HolderBadges
  <2>1. d = c
    BY <1>2 DEF HoldsLearner, GamificationInv, Strengthening, OneHolder
  <2>2. \A q \in Counted : (Reached(q, mem[c])' <=> Reached(q, mem[c]))
                          /\ (Sets(c, q)' <=> Sets(c, q))
    BY <1>2 DEF Reached, Sets
  <2>3. /\ \A q \in earned[c] : q \notin todo[c] /\ learner_badges[q] = 0
        /\ \A q \in Counted :
              /\ q \in earned[c] => Reached(q, mem[c])
              /\ q \notin todo[c] /\ Reached(q, mem[c]) =>
                    q \in earned[c] \/ learner_badges[q] >= 1
              /\ ~Sets(c, q) /\ Reached(q, mem[c]) => learner_badges[q] >= 1
    BY <1>2 DEF GamificationInv, Strengthening, HolderBadges
  <2>4. \A q \in earned'[c] : q \notin todo'[c] /\ learner_badges'[q] = 0
    BY <1>2, <1>4, <2>3
  <2>5. learner_badges[b] = 0 \/ learner_badges[b] >= 1
    BY DEF GamificationInv, GamificationTypeOK
  <2>6. ASSUME NEW q \in Counted
        PROVE  /\ q \in earned'[c] => Reached(q, mem[c])
               /\ q \notin todo'[c] /\ Reached(q, mem[c]) =>
                     q \in earned'[c] \/ learner_badges'[q] >= 1
               /\ ~Sets(c, q) /\ Reached(q, mem[c]) => learner_badges'[q] >= 1
    <3>1. CASE q = b
      BY <3>1, <1>2, <1>4, <2>3, <2>5, <2>6
    <3>2. CASE q # b
      BY <3>2, <1>2, <2>3, <2>6
    <3> QED
      BY <3>1, <3>2
  <2> QED
    BY <2>1, <2>2, <2>4, <2>6
<1>7. BadgeAtMostOnce' /\ MilestonesAwarded'
  BY <1>2 DEF GamificationInv, Strengthening, BadgeAtMostOnce, MilestonesAwarded,
              Reached
<1> QED
  BY <1>3, <1>5, <1>6, <1>7 DEF GamificationInv, Strengthening

(* What a commit gives, its row has reached.                               *)
LEMMA CommitDeserves ==
    ASSUME GamificationInv, NEW c \in Calls, Commit(c), NEW b \in Counted
    PROVE  /\ b \in earned[c] => Reached(b, Updated(c))
           /\ Reached(b, Updated(c)) => b \in earned[c] \/ learner_badges[b] >= 1
<1>1. /\ HoldsLearner(c) /\ todo[c] = {}
      /\ b \in earned[c] => Reached(b, mem[c]) /\ learner_badges[b] = 0
      /\ Reached(b, mem[c]) => b \in earned[c] \/ learner_badges[b] >= 1
      /\ ~Sets(c, b) /\ Reached(b, mem[c]) => learner_badges[b] >= 1
  BY DEF Commit, GamificationInv, Strengthening, HolderBadges
<1>2. Reached(b, learner) => learner_badges[b] >= 1
  BY DEF GamificationInv, Strengthening, MilestonesAwarded, Counted
<1>3. CASE Sets(c, b)
  <2>1. Reached(b, Updated(c)) <=> Reached(b, mem[c])
    BY <1>3 DEF Sets, Reached, Updated
  <2> QED
    BY <1>1, <2>1
<1>4. CASE ~Sets(c, b)
  <2>1. Reached(b, Updated(c)) <=> Reached(b, learner)
    BY <1>4 DEF Sets, Reached, Updated
  <2>2. b \notin earned[c]
    BY <1>1, <1>4
  <2> QED
    BY <1>2, <2>1, <2>2
<1> QED
  BY <1>3, <1>4

LEMMA CommitKeepsInv ==
    ASSUME GamificationInv, NEW c \in Calls, Commit(c)
    PROVE  GamificationInv'
<1>1. /\ pc'[c] = "idle" /\ earned'[c] = {}
      /\ \A d \in Calls \ {c} :
             /\ pc'[d] = pc[d] /\ mem'[d] = mem[d] /\ dirty'[d] = dirty[d]
             /\ todo'[d] = todo[d] /\ earned'[d] = earned[d]
  BY ReturnKeeps DEF Commit
<1>2. /\ HoldsLearner(c) /\ day' = day /\ learner' = Updated(c)
      /\ \A b \in Badges : learner_badges'[b] =
             learner_badges[b] + (IF b \in earned[c] THEN 1 ELSE 0)
  BY DEF Commit
<1>3. \A d \in Calls \ {c} : ~HoldsLearner(d)
  BY <1>2 DEF GamificationInv, Strengthening, OneHolder
<1>4. \A b \in Badges : learner_badges[b] \in Nat
  BY DEF GamificationInv, GamificationTypeOK
<1>5. GamificationTypeOK' /\ Dated'
  <2>1. mem[c] \in Learner /\ learner \in Learner
    BY DEF GamificationInv, GamificationTypeOK
  <2>2. learner' \in Learner
    BY <1>2, <2>1 DEF Updated, Learner
  <2>3. learner_badges' \in [Badges -> Nat]
    BY <1>4 DEF Commit
  <2>4. learner'.last_active_at <= day'
    BY <1>2, <2>1 DEF Updated, GamificationInv, GamificationTypeOK, Dated
  <2> QED
    BY <2>2, <2>3, <2>4, <1>2, ReturnKeeps DEF Commit, GamificationInv,
                                              GamificationTypeOK, Dated
<1>6. OneHolder' /\ NothingEarnedYet'
  BY <1>1, <1>3 DEF GamificationInv, Strengthening, OneHolder, NothingEarnedYet,
                    HoldsLearner
<1>7. LoadedHeld'
  BY <1>1, <1>2, <1>4 DEF GamificationInv, Strengthening, LoadedHeld, Counted,
                          Badges, Reached
<1>8. HolderBadges'
  BY <1>1, <1>3 DEF HolderBadges, HoldsLearner
<1>9. BadgeAtMostOnce'
  <2> SUFFICES ASSUME NEW b \in Badges PROVE learner_badges'[b] <= 1
    BY DEF BadgeAtMostOnce
  <2>1. b \in earned[c] => learner_badges[b] = 0
    BY <1>2 DEF GamificationInv, Strengthening, HolderBadges
  <2>2. learner_badges[b] <= 1
    BY DEF GamificationInv, Strengthening, BadgeAtMostOnce
  <2> QED
    BY <1>2, <1>4, <2>1, <2>2
<1>10. MilestonesAwarded'
  <2> SUFFICES ASSUME NEW b \in Counted, Reached(b, learner')
               PROVE  learner_badges'[b] >= 1
    BY DEF MilestonesAwarded, Counted, Reached
  <2>1. b \in earned[c] \/ learner_badges[b] >= 1
    BY <1>2, CommitDeserves
  <2>2. b \in Badges
    BY DEF Counted, Badges
  <2> QED
    BY <1>2, <1>4, <2>1, <2>2
<1> QED
  BY <1>5, <1>6, <1>7, <1>8, <1>9, <1>10 DEF GamificationInv, Strengthening

LEMMA MidnightKeepsInv ==
    ASSUME GamificationInv, Midnight PROVE GamificationInv'
<1>1. GamificationTypeOK' /\ Dated'
  BY BoundsAssumption DEF Midnight, callVars, Learner, GamificationInv,
                          GamificationTypeOK, Dated
<1>2. Strengthening'
  BY DEF Midnight, callVars, GamificationInv, Strengthening, OneHolder, LoadedHeld,
         NothingEarnedYet, HolderBadges, BadgeAtMostOnce, MilestonesAwarded,
         HoldsLearner, Reached, Sets
<1> QED
  BY <1>1, <1>2 DEF GamificationInv

LEMMA StutterKeepsGamificationInv ==
    GamificationInv /\ UNCHANGED gamificationVars => GamificationInv'
<1> SUFFICES ASSUME GamificationInv, UNCHANGED gamificationVars
             PROVE  GamificationInv'
  OBVIOUS
<1>1. GamificationTypeOK' /\ Dated'
  BY DEF gamificationVars, callVars, GamificationInv, GamificationTypeOK, Dated
<1>2. Strengthening'
  BY DEF gamificationVars, callVars, GamificationInv, Strengthening, OneHolder,
         LoadedHeld, NothingEarnedYet, HolderBadges, BadgeAtMostOnce,
         MilestonesAwarded, HoldsLearner, Reached, Sets
<1> QED
  BY <1>1, <1>2 DEF GamificationInv

LEMMA GamificationInvAlways == GamificationSpec => []GamificationInv
<1>1. GamificationInv /\ [GamificationNext]_gamificationVars => GamificationInv'
  <2> SUFFICES ASSUME GamificationInv, [GamificationNext]_gamificationVars
               PROVE  GamificationInv'
    OBVIOUS
  <2>1. ASSUME NEW c \in Calls, NEW o \in {"award", "streak"}, Load(c, o)
        PROVE  GamificationInv'
    BY <2>1, LoadKeepsInv
  <2>2. ASSUME NEW c \in Calls, Capped(c) PROVE GamificationInv'
    BY <2>2, RollbackKeepsInv DEF Capped
  <2>3. ASSUME NEW c \in Calls, NEW n \in Amounts, AwardXP(c, n)
        PROVE  GamificationInv'
    BY <2>3, AwardXPKeepsInv
  <2>4. ASSUME NEW c \in Calls, UpdateStreak(c) PROVE GamificationInv'
    BY <2>4, UpdateStreakKeepsInv
  <2>5. ASSUME NEW c \in Calls, NEW b \in Badges, CheckBadge(c, b)
        PROVE  GamificationInv'
    BY <2>5, CheckBadgeKeepsInv
  <2>6. ASSUME NEW c \in Calls, Commit(c) PROVE GamificationInv'
    BY <2>6, CommitKeepsInv
  <2>7. ASSUME NEW c \in Calls, Fail(c) PROVE GamificationInv'
    BY <2>7, RollbackKeepsInv DEF Fail
  <2>8. CASE Midnight
    BY <2>8, MidnightKeepsInv
  <2>9. CASE UNCHANGED gamificationVars
    BY <2>9, StutterKeepsGamificationInv
  <2> QED
    BY <2>1, <2>2, <2>3, <2>4, <2>5, <2>6, <2>7, <2>8, <2>9 DEF GamificationNext
<1> QED
  BY <1>1, InitEstablishesGamificationInv, PTL DEF GamificationSpec

-----------------------------------------------------------------------------
(* Every state that calls can reach is well typed.                         *)
THEOREM GamificationTypeCorrect == GamificationSpec => []GamificationTypeOK
BY GamificationInvAlways, PTL DEF GamificationInv

(* award_xp and update_streak never give a badge twice, however many of    *)
(* them run at once.                                                       *)
THEOREM BadgesGivenOnce == GamificationSpec => []BadgeAtMostOnce
BY GamificationInvAlways, PTL DEF GamificationInv, Strengthening

(* A learner whose row has reached a badge has it.                         *)
THEOREM ReachedBadgesAreGiven == GamificationSpec => []MilestonesAwarded
BY GamificationInvAlways, PTL DEF GamificationInv, Strengthening

(* What is given is reached by the row it is committed with: only Commit   *)
(* gives badges, and CommitDeserves says which.                            *)
THEOREM GivenBadgesAreReached == GamificationSpec => BadgesDeserved
<1>1. GamificationInv /\ [GamificationNext]_gamificationVars =>
          [\A b \in StreakBadges \cup XPBadges :
              learner_badges'[b] > learner_badges[b] => Reached(b, learner')
          ]_gamificationVars
  <2> SUFFICES ASSUME GamificationInv, [GamificationNext]_gamificationVars,
                      NEW b \in Counted, learner_badges'[b] > learner_badges[b]
               PROVE  Reached(b, learner')
    BY DEF Counted
  <2>1. b \in Badges /\ learner_badges[b] \in Nat
    BY DEF Counted, Badges, GamificationInv, GamificationTypeOK
  <2>2. learner_badges' # learner_badges
    BY <2>1
  <2>3. PICK c \in Calls : Commit(c)
    BY <2>2 DEF GamificationNext, Load, Capped, AwardXP, UpdateStreak, Flush,
                CheckBadge, Fail, Midnight, gamificationVars
  <2>4. b \in earned[c]
    BY <2>1, <2>3 DEF Commit
  <2> QED
    BY <2>3, <2>4, CommitDeserves DEF Commit, Reached
<1> QED
  BY <1>1, GamificationInvAlways, PTL DEF GamificationSpec, BadgesDeserved

-----------------------------------------------------------------------------
(* LearnerRecords, which is about the same row: served progress stays      *)
(* served.                                                                 *)
RowsTyped == learners \in [Learners -> LearnerRow]

LEMMA PresentRow ==
    ASSUME NEW row \in LearnerRow, row.present
    PROVE  row \in [total_xp : Column, streak_days : Column, present : {TRUE}]
<1>1. Absent.present = FALSE
  BY DEF Absent
<1>2. row # Absent
  BY <1>1, Zenon
<1> QED
  BY <1>2 DEF LearnerRow

(* What a PATCH makes of a row.                                            *)
LEMMA PatchedRow ==
    ASSUME NEW row \in LearnerRow, row.present, NEW n \in Numbers,
           NEW columns \in SUBSET {"total_xp", "streak_days", "grade"}
    PROVE  /\ Patch(row, columns, n) \in LearnerRow
           /\ Patch(row, columns, n).present
           /\ row.total_xp # NULL => Patch(row, columns, n).total_xp # NULL
<1> DEFINE patched == Patch(row, columns, n)
<1>0. patched = [c \in DOMAIN row |-> IF c \in columns THEN {n} ELSE row[c]]
  BY DEF Patch
<1> HIDE DEF patched
<1>1. row \in [total_xp : Column, streak_days : Column, present : {TRUE}]
  BY PresentRow
<1>2. DOMAIN row = {"total_xp", "streak_days", "present"}
  BY <1>1
<1>3. /\ patched["total_xp"] \in Column /\ patched["streak_days"] \in Column
      /\ patched["present"] = TRUE
      /\ row["total_xp"] # {} => patched["total_xp"] # {}
  BY <1>0, <1>1, <1>2 DEF Column, Given
<1>4. patched = [total_xp |-> patched["total_xp"],
                 streak_days |-> patched["streak_days"],
                 present |-> patched["present"]]
  BY <1>0, <1>2
<1>5. patched \in [total_xp : Column, streak_days : Column, present : {TRUE}]
  BY <1>3, <1>4
<1> QED
  BY <1>3, <1>5 DEF LearnerRow, NULL, patched

(* What one step makes of one row: it was not there, or patched, or stays. *)
LEMMA RecordsStep ==
    ASSUME RowsTyped, RecordsNext
    PROVE  /\ RowsTyped'
           /\ \A l \in Learners :
                 learners[l].present /\ learners[l].total_xp # NULL =>
                     learners'[l].present /\ learners'[l].total_xp # NULL
<1> DEFINE Goal == /\ RowsTyped'
                   /\ \A l \in Learners :
                         learners[l].present /\ learners[l].total_xp # NULL =>
                             learners'[l].present /\ learners'[l].total_xp # NULL
<1>1. CASE UNCHANGED learners
  BY <1>1 DEF RowsTyped
<1>2. ASSUME NEW m \in Learners, CreateLearner(m)
      PROVE  Goal
  <2>1. PICK fresh \in LearnerRow :
          learners' = learners \/ learners' = [learners EXCEPT ![m] = fresh]
    <3>1. [total_xp |-> NULL, streak_days |-> NULL, present |-> TRUE]
            \in LearnerRow
      BY DEF LearnerRow, Column, NULL
    <3> QED
      BY <1>2, <3>1 DEF CreateLearner
  <2>2. ~learners[m].present
    BY <1>2 DEF CreateLearner
  <2> QED
    BY <2>1, <2>2 DEF RowsTyped
<1>3. ASSUME NEW m \in Learners, UpdateLearner(m)
      PROVE  Goal
  <2>1. CASE UNCHANGED learners
    BY <2>1 DEF RowsTyped
  <2>2. ASSUME NEW columns \in SUBSET {"total_xp", "streak_days", "grade"},
               NEW n \in Numbers,
               learners' = [learners EXCEPT
                    ![m] = IF @.present THEN Patch(@, columns, n) ELSE @]
        PROVE  Goal
    <3>1. CASE ~learners[m].present
      BY <2>2, <3>1 DEF RowsTyped
    <3>2. CASE learners[m].present
      <4>1. learners[m] \in LearnerRow
        BY DEF RowsTyped
      <4>2. learners' = [learners EXCEPT ![m] = Patch(learners[m], columns, n)]
        BY <2>2, <3>2
      <4> QED
        BY <3>2, <4>1, <4>2, PatchedRow DEF RowsTyped
    <3> QED
      BY <3>1, <3>2
  <2> QED
    BY <1>3, <2>1, <2>2 DEF UpdateLearner
<1> QED
  BY <1>1, <1>2, <1>3
     DEF RecordsNext, GetLearner, RequestDeletion, GetMastery, UpsertMastery,
         GetProgress, ListAssessments, GetAssessment, SubmitAttempt,
         GenerateLesson, SubmitFeedback, tables

(* A learner whose progress can be served can be served ever after.        *)
THEOREM ProgressServed == RecordsSpec => ProgressStaysServed
<1>1. RecordsInit => RowsTyped
  BY DEF RecordsInit, RowsTyped, LearnerRow, Column
<1>2. RowsTyped /\ [RecordsNext]_recordsVars => RowsTyped'
  BY RecordsStep DEF recordsVars, RowsTyped
<1>3. RowsTyped /\ [RecordsNext]_recordsVars =>
        [\A l \in Learners :
            ProgressStatus(l) = 200 => ProgressStatus(l)' = 200]_recordsVars
  BY RecordsStep DEF ProgressStatus
<1> QED
  BY <1>1, <1>2, <1>3, PTL DEF RecordsSpec, ProgressStaysServed

-----------------------------------------------------------------------------
(* No request is from the future, and what was forgotten is out of every   *)
(* window that is still to come.                                           *)
NoneAhead ==
    \A a \in Addresses : \A i \in DOMAIN admitted[a] : admitted[a][i] <= tick

ForgottenIsOld ==
    \A a \in Addresses : \A i \in DOMAIN admitted[a] :
        i \notin recent[a] => ~Within(admitted[a][i], tick)

RateInv == RateTypeOK /\ NoneAhead /\ ForgottenIsOld /\ WindowHolds

(* A window is a finite set, and no larger than one it is part of.         *)
LEMMA WindowsFinite ==
    ASSUME RateTypeOK, NEW a \in Addresses
    PROVE  /\ IsFiniteSet(DOMAIN admitted[a])
           /\ \A now : IsFiniteSet(Window(a, now))
           /\ IsFiniteSet(Pruned(a))
<1>1. admitted[a] \in Seq(0 .. LastTick) /\ recent[a] \subseteq DOMAIN admitted[a]
  BY DEF RateTypeOK
<1>2. DOMAIN admitted[a] = 1 .. Len(admitted[a]) /\ Len(admitted[a]) \in Nat
  BY <1>1
<1>3. IsFiniteSet(DOMAIN admitted[a])
  BY <1>2, FS_Interval
<1>4. \A now : Window(a, now) \in SUBSET DOMAIN admitted[a]
  BY DEF Window
<1>5. Pruned(a) \in SUBSET DOMAIN admitted[a]
  BY <1>1 DEF Pruned
<1> QED
  BY <1>3, <1>4, <1>5, FS_Subset

(* What the middleware counts is the whole window that ends now.           *)
LEMMA PrunedIsWindow ==
    ASSUME RateInv, NEW a \in Addresses
    PROVE  Window(a, tick) = Pruned(a)
<1>1. recent[a] \subseteq DOMAIN admitted[a]
  BY DEF RateInv, RateTypeOK
<1>2. \A i \in DOMAIN admitted[a] : admitted[a][i] <= tick
  BY DEF RateInv, NoneAhead
<1>3. \A i \in DOMAIN admitted[a] : Within(admitted[a][i], tick) => i \in recent[a]
  BY DEF RateInv, ForgottenIsOld
<1> QED
  BY <1>1, <1>2, <1>3 DEF Window, Pruned

LEMMA InitEstablishesRateInv == RateInit => RateInv
<1> SUFFICES ASSUME RateInit PROVE RateInv
  OBVIOUS
<1>1. \A a \in Addresses : admitted[a] = << >> /\ recent[a] = {}
  BY DEF RateInit
<1>2. RateTypeOK /\ NoneAhead /\ ForgottenIsOld
  BY <1>1, LimitAssumption DEF RateInit, RateTypeOK, NoneAhead, ForgottenIsOld
<1>3. WindowHolds
  <2> SUFFICES ASSUME NEW a \in Addresses, NEW now \in 0 .. tick
               PROVE  Cardinality(Window(a, now)) <= PerMinute
    BY DEF WindowHolds
  <2>1. Window(a, now) = {}
    BY <1>1 DEF Window
  <2> QED
    BY <2>1, FS_EmptySet, LimitAssumption
<1> QED
  BY <1>2, <1>3 DEF RateInv

(* As time passes requests leave the window and none enters it.            *)
LEMMA PassKeepsRateInv == RateInv /\ Pass => RateInv'
<1> SUFFICES ASSUME RateInv, Pass PROVE RateInv'
  OBVIOUS
<1>1. tick \in Nat /\ tick' = tick + 1 /\ tick' \in 0 .. LastTick
      /\ UNCHANGED <<recent, admitted>>
  BY LimitAssumption DEF RateInv, RateTypeOK, Pass
<1>2. RateTypeOK'
  BY <1>1 DEF RateInv, RateTypeOK
<1>3. \A a \in Addresses : \A i \in DOMAIN admitted[a] : admitted[a][i] \in Nat
  BY LimitAssumption DEF RateInv, RateTypeOK
<1>4. NoneAhead' /\ ForgottenIsOld'
  BY <1>1, <1>3, LimitAssumption
     DEF RateInv, NoneAhead, ForgottenIsOld, Within
<1>5. WindowHolds'
  <2> SUFFICES ASSUME NEW a \in Addresses, NEW now \in 0 .. tick'
               PROVE  Cardinality(Window(a, now)') <= PerMinute
    BY DEF WindowHolds, Window, Within
  <2>1. Window(a, now)' = Window(a, now)
    BY <1>1 DEF Window, Within
  <2>2. CASE now \in 0 .. tick
    BY <2>1, <2>2 DEF RateInv, WindowHolds
  <2>3. CASE now = tick + 1
    <3>1. Window(a, now) \subseteq Window(a, tick)
      <4> SUFFICES ASSUME NEW i \in DOMAIN admitted[a],
                          Within(admitted[a][i], tick + 1)
                   PROVE  admitted[a][i] <= tick /\ Within(admitted[a][i], tick)
        BY <2>3 DEF Window
      <4> QED
        BY <1>1, <1>3, LimitAssumption DEF RateInv, NoneAhead, Within
    <3>2. /\ IsFiniteSet(Window(a, tick)) /\ IsFiniteSet(Window(a, now))
          /\ Cardinality(Window(a, now)) \in Nat
          /\ Cardinality(Window(a, now)) <= Cardinality(Window(a, tick))
          /\ Cardinality(Window(a, tick)) \in Nat
      BY <3>1, WindowsFinite, FS_Subset, FS_CardinalityType DEF RateInv
    <3>3. Cardinality(Window(a, tick)) <= PerMinute
      BY <1>1 DEF RateInv, WindowHolds
    <3> QED
      BY <2>1, <3>2, <3>3, LimitAssumption
  <2> QED
    BY <1>1, <2>2, <2>3
<1> QED
  BY <1>2, <1>4, <1>5 DEF RateInv

(* A request that is let in finds fewer than PerMinute in its window.      *)
LEMMA CallKeepsRateInv ==
    ASSUME RateInv, NEW a \in Addresses, Call(a)
    PROVE  RateInv'
<1>1. /\ tick \in 0 .. LastTick /\ tick \in Nat /\ tick' = tick
      /\ admitted[a] \in Seq(0 .. LastTick) /\ recent[a] \subseteq DOMAIN admitted[a]
      /\ DOMAIN recent = Addresses /\ DOMAIN admitted = Addresses
      /\ \A b \in Addresses \ {a} : /\ recent'[b] = recent[b]
                                   /\ admitted'[b] = admitted[b]
  BY LimitAssumption DEF RateInv, RateTypeOK, Call
<1>2. \A b \in Addresses : \A i \in DOMAIN admitted[b] : admitted[b][i] \in Nat
  BY LimitAssumption DEF RateInv, RateTypeOK
<1>3. CASE Full(a)
  <2>1. admitted' = admitted /\ recent'[a] = Pruned(a)
    BY <1>1, <1>3 DEF Call
  <2>2. RateTypeOK'
    BY <1>1, <2>1 DEF RateInv, RateTypeOK, Pruned, Call
  <2>3. NoneAhead' /\ ForgottenIsOld'
    BY <1>1, <2>1 DEF RateInv, NoneAhead, ForgottenIsOld, Pruned, Within
  <2>4. WindowHolds'
    BY <1>1, <2>1 DEF RateInv, WindowHolds, Window, Within
  <2> QED
    BY <2>2, <2>3, <2>4 DEF RateInv
<1>4. CASE ~Full(a)
  <2> DEFINE n == Len(admitted[a]) + 1
  <2>1. /\ recent'[a] = Pruned(a) \cup {n}
        /\ admitted'[a] = Append(admitted[a], tick)
        /\ n \in Nat /\ n \notin DOMAIN admitted[a]
        /\ DOMAIN (admitted'[a]) = DOMAIN admitted[a] \cup {n}
        /\ admitted'[a][n] = tick
        /\ \A i \in DOMAIN admitted[a] : admitted'[a][i] = admitted[a][i]
    BY <1>1, <1>4 DEF Call
  <2> HIDE DEF n
  <2>2. RateTypeOK'
    <3>1. admitted' \in [Addresses -> Seq(0 .. LastTick)]
      <4>1. Append(admitted[a], tick) \in Seq(0 .. LastTick)
        BY <1>1
      <4>2. admitted' = [admitted EXCEPT ![a] = Append(admitted[a], tick)]
        BY <1>4 DEF Call
      <4> QED
        BY <4>1, <4>2 DEF RateInv, RateTypeOK
    <3>2. recent' \in [Addresses -> SUBSET Nat]
      BY <1>1, <1>4, <2>1 DEF RateInv, RateTypeOK, Call, Pruned, n
    <3>3. \A b \in Addresses : recent'[b] \subseteq DOMAIN (admitted'[b])
      BY <1>1, <2>1 DEF RateInv, RateTypeOK, Pruned
    <3> QED
      BY <1>1, <3>1, <3>2, <3>3 DEF RateTypeOK
  <2>3. NoneAhead' /\ ForgottenIsOld'
    BY <1>1, <2>1 DEF RateInv, NoneAhead, ForgottenIsOld, Pruned, Within
  <2>4. WindowHolds'
    <3> SUFFICES ASSUME NEW b \in Addresses, NEW now \in 0 .. tick
                 PROVE  Cardinality(Window(b, now)') <= PerMinute
      BY <1>1 DEF WindowHolds, Window, Within
    <3>1. Cardinality(Window(b, now)) <= PerMinute
      BY DEF RateInv, WindowHolds
    <3>2. CASE b # a
      BY <1>1, <3>1, <3>2 DEF Window, Within
    <3>3. CASE b = a /\ now < tick
      <4>1. Window(a, now)' = Window(a, now)
        BY <1>1, <2>1, <3>3 DEF Window, Within
      <4> QED
        BY <3>1, <3>3, <4>1
    <3>4. CASE b = a /\ now = tick
      <4>1. Window(b, now)' \subseteq Window(a, tick) \cup {n}
        BY <1>1, <2>1, <3>4 DEF Window, Within
      <4>2. Window(a, tick) = Pruned(a)
        BY PrunedIsWindow
      <4>3. /\ IsFiniteSet(Pruned(a)) /\ Cardinality(Pruned(a)) \in Nat
            /\ Cardinality(Pruned(a)) < PerMinute
        BY <1>4, WindowsFinite, FS_CardinalityType, LimitAssumption
           DEF RateInv, Full
      <4>4. /\ IsFiniteSet(Pruned(a) \cup {n})
            /\ Cardinality(Pruned(a) \cup {n}) \in Nat
            /\ Cardinality(Pruned(a) \cup {n}) <= PerMinute
        BY <4>3, FS_AddElement, LimitAssumption
      <4>5. /\ Cardinality(Window(b, now)') <= Cardinality(Pruned(a) \cup {n})
            /\ Cardinality(Window(b, now)') \in Nat
        BY <4>1, <4>2, <4>4, FS_Subset, FS_CardinalityType
      <4> QED
        BY <4>4, <4>5, LimitAssumption
    <3> QED
      BY <1>1, <3>2, <3>3, <3>4
  <2> QED
    BY <2>2, <2>3, <2>4 DEF RateInv
<1> QED
  BY <1>3, <1>4

LEMMA RateStepKeepsInv == RateInv /\ [RateNext]_rateVars => RateInv'
<1> SUFFICES ASSUME RateInv, [RateNext]_rateVars PROVE RateInv'
  OBVIOUS
<1>1. CASE Pass
  BY <1>1, PassKeepsRateInv
<1>2. ASSUME NEW a \in Addresses, Call(a) PROVE RateInv'
  BY <1>2, CallKeepsRateInv
<1>3. CASE UNCHANGED rateVars
  BY <1>3 DEF RateInv, RateTypeOK, NoneAhead, ForgottenIsOld, WindowHolds, Window,
              Within, rateVars
<1> QED
  BY <1>1, <1>2, <1>3 DEF RateNext

(* In any minute, not only from a process's first request on, at most      *)
(* PerMinute requests of an address are passed on, for any limit, window   *)
(* and addresses.                                                          *)
THEOREM LimitHolds == RateSpec => []WindowHolds
<1>1. RateInv => WindowHolds
  BY DEF RateInv
<1> QED
  BY <1>1, InitEstablishesRateInv, RateStepKeepsInv, PTL DEF RateSpec
=============================================================================
