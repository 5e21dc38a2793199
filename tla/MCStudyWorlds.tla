------------------------------- MODULE MCStudyWorlds -------------------------------
(* Instance of StudyWorlds for TLC.  The bounds are stylised: they keep what the     *)
(* assumptions of Calibration and RiskControl ask for and stay tight enough for      *)
(* three trials to certify something.                                               *)
EXTENDS StudyWorlds, TLC

MCExactUpper(k, n, c) == AtMostOne(<<8 * k + c, 8 * n>>)
MCExactLower(k, n) == AtLeastZero(<<4 * k - 1, 4 * n>>)
MCHoeffdingSlack(n, c) == <<c, 12 * n>>
MCWilsonUpper(k, n) == AtMostOne(<<2 * k + 1, 2 * n>>)
MCEpsilon == <<1, 100>>
MCStableUnit(key) == <<(7 * key[1] + 3 * Len(key)) % 10, 10>>
MCEvidence(policy) == [capture |-> <<1, 2>>, burden |-> <<1, 4>>]

MCParts == {"prefix", "rows", "timing", "claims"}
MCLayouts == {"terminus_episode", "mini_swe_mini_traj", "swe_agent_traj",
              "openhands_events", "openhands_tensorblock"}
MCRowScores == {Zero, <<1, 2>>, One}
MCTimedScores == {<<1, 4>>, <<3, 4>>}
MCTrains == {<<[score |-> <<<<1, 4>>, <<3, 4>>>>, bad |-> {2}], [score |-> <<<<1, 2>>>>, bad |-> {}]>>}
MCTests == {<<[score |-> <<<<1, 4>>, <<3, 4>>>>, bad |-> {2}], [score |-> <<<<1, 4>>>>, bad |-> {}]>>}
====================================================================================
