---------------------------- MODULE MCComponents ----------------------------
(* The components that keep data beside the judiciary: a learner's XP and  *)
(* badges, calibration, export, dummy data, the rate limit, records and    *)
(* diagnostics, the rules' agent, the older judiciary, the router and the  *)
(* queue.  None of these share state, so `part` says which of them a       *)
(* behaviour is of, and the others stay as they began.                     *)
(*                                                                         *)
(* gamification: two requests at a time, three days and a streak of up to  *)
(* three, enough for a reset and for a call that stays open over midnight; *)
(* one badge of each kind.  calibration: two updates of one item, one of   *)
(* another, two answers.  export: two ratings, two exports.  dummy: two    *)
(* start-up tasks over a table of three.  limit: two requests a minute of  *)
(* three ticks, over more than two minutes.  records, diagnostics: one     *)
(* learner, two assessments; two sessions, two items.  legislature: two    *)
(* agents and a document of two rules, of which one is the same in both    *)
(* versions of the file.  legacy: two reviews with one prompt, over a      *)
(* clock of four moments and a cache of two.  router: as in                *)
(* MCProviderRouter.  estate: two tasks that publish up to three events    *)
(* each, over a buffer of two.                                             *)
EXTENDS Gamification, ItemCalibration, RLHFExport, DummyData, RateLimit,
        LearnerRecords, Diagnostics, Legislature, LegacyReview,
        MCProviderRouter, FourthEstate

CONSTANTS c1, c2, streak, xp, mastery,
          i1, i2, u1, u2, u3, w1, w2,
          f1, f2, x1, x2, en, zu,
          s1, s2, ip, l1, m1, m2, d1, d2, b1, b2,
          g1, g2, old, new, v1, v2, p1, t1, t2

MCCalls == {c1, c2}
MCThreshold == [b \in {streak, xp} |-> 2]
MCItems == {i1, i2}
MCUpdates == {u1, u2, u3}
MCAnswers == {w1, w2}
MCItemOf == [c \in MCUpdates \cup MCAnswers |-> IF c = u3 THEN i2 ELSE i1]
MCFeedback == {f1, f2}
MCExports == {x1, x2}
MCLanguages == {en, zu}
MCStarts == {s1, s2}
MCAddresses == {ip}
MCLearners == {l1}
MCAssessments == {m1, m2}
MCSessionIds == {d1, d2}
MCBankItems == {b1, b2}
MCAgents == {g1, g2}
MCDocuments == {old, new}
MCText ==
    [d \in MCDocuments |-> <<"unchanged", IF d = old THEN "was" ELSE "is">>]
MCReviews == {v1, v2}
MCPrompts == {p1}
MCTasks == {t1, t2}

VARIABLE part

mcVars == <<gamificationVars, calibrationVars, rlhfVars, dummyVars, rateVars,
            recordsVars, diagnosticsVars, legislatureVars, legacyVars,
            routerVars, estateVars, part>>

ExportAtRest ==
    /\ language = [f \in Feedback |-> en]
    /\ format = [e \in Exports |-> "jsonl"]
    /\ languages = [e \in Exports |-> Languages]
    /\ RLHFInit

RecordsAtRest ==
    /\ mastered = {} /\ learners = [l \in Learners |-> Absent]
    /\ asked = [active |-> {}, questions |-> {}]
    /\ RecordsInit

DiagnosticsAtRest ==
    stored = [d \in SessionIds |-> NoRow] /\ active = {} /\ DiagnosticsInit

LegislatureAtRest ==
    file = old /\ dated = [a \in Agents |-> 1] /\ LegislatureInit

LegacyAtRest ==
    /\ useLLM = FALSE /\ offlineMode = FALSE /\ violating = {}
    /\ prompt = [r \in Reviews |-> p1]
    /\ LegacyInit

EstateAtRest == agenda = [t \in Tasks |-> <<"EVENT">>] /\ EstateInit

MCInit ==
    /\ part \in {"gamification", "calibration", "export", "dummy", "limit",
                 "records", "diagnostics", "legislature", "legacy",
                 "router", "estate"}
    /\ GamificationInit /\ CalibrationInit /\ DummyInit /\ RateInit
    /\ RouterInit
    /\ IF part = "export" THEN RLHFInit ELSE ExportAtRest
    /\ IF part = "records" THEN RecordsInit ELSE RecordsAtRest
    /\ IF part = "diagnostics" THEN DiagnosticsInit ELSE DiagnosticsAtRest
    /\ IF part = "legislature" THEN LegislatureInit ELSE LegislatureAtRest
    /\ IF part = "legacy" THEN LegacyInit ELSE LegacyAtRest
    /\ IF part = "estate" THEN EstateInit ELSE EstateAtRest

MCNext ==
    \/ part = "gamification" /\ GamificationNext
       /\ UNCHANGED <<calibrationVars, rlhfVars, dummyVars, rateVars,
                      recordsVars, diagnosticsVars, legislatureVars,
                      legacyVars, routerVars, estateVars, part>>
    \/ part = "calibration" /\ CalibrationNext
       /\ UNCHANGED <<gamificationVars, rlhfVars, dummyVars, rateVars,
                      recordsVars, diagnosticsVars, legislatureVars,
                      legacyVars, routerVars, estateVars, part>>
    \/ part = "export" /\ RLHFNext
       /\ UNCHANGED <<gamificationVars, calibrationVars, dummyVars, rateVars,
                      recordsVars, diagnosticsVars, legislatureVars,
                      legacyVars, routerVars, estateVars, part>>
    \/ part = "dummy" /\ DummyNext
       /\ UNCHANGED <<gamificationVars, calibrationVars, rlhfVars, rateVars,
                      recordsVars, diagnosticsVars, legislatureVars,
                      legacyVars, routerVars, estateVars, part>>
    \/ part = "limit" /\ RateNext
       /\ UNCHANGED <<gamificationVars, calibrationVars, rlhfVars, dummyVars,
                      recordsVars, diagnosticsVars, legislatureVars,
                      legacyVars, routerVars, estateVars, part>>
    \/ part = "records" /\ RecordsNext
       /\ UNCHANGED <<gamificationVars, calibrationVars, rlhfVars, dummyVars,
                      rateVars, diagnosticsVars, legislatureVars, legacyVars,
                      routerVars, estateVars, part>>
    \/ part = "diagnostics" /\ DiagnosticsNext
       /\ UNCHANGED <<gamificationVars, calibrationVars, rlhfVars, dummyVars,
                      rateVars, recordsVars, legislatureVars, legacyVars,
                      routerVars, estateVars, part>>
    \/ part = "legislature" /\ LegislatureNext
       /\ UNCHANGED <<gamificationVars, calibrationVars, rlhfVars, dummyVars,
                      rateVars, recordsVars, diagnosticsVars, legacyVars,
                      routerVars, estateVars, part>>
    \/ part = "legacy" /\ LegacyNext
       /\ UNCHANGED <<gamificationVars, calibrationVars, rlhfVars, dummyVars,
                      rateVars, recordsVars, diagnosticsVars, legislatureVars,
                      routerVars, estateVars, part>>
    \/ part = "router" /\ RouterNext
       /\ UNCHANGED <<gamificationVars, calibrationVars, rlhfVars, dummyVars,
                      rateVars, recordsVars, diagnosticsVars, legislatureVars,
                      legacyVars, estateVars, part>>
    \/ part = "estate" /\ EstateNext
       /\ UNCHANGED <<gamificationVars, calibrationVars, rlhfVars, dummyVars,
                      rateVars, recordsVars, diagnosticsVars, legislatureVars,
                      legacyVars, routerVars, part>>

MCSpec == MCInit /\ [][MCNext]_mcVars
=============================================================================
