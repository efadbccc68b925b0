--------------------------- MODULE ScannerProofs ----------------------------
(***************************************************************************)
(* Theorems about Scanner for any ecosystems, projects, number of scans    *)
(* running at once and peers.                                              *)
(***************************************************************************)
EXTENDS Scanner, TLAPS

\* Constant values of the module are of their types.
LEMMA IdleTyped == NoIndex \in [Ecosystems -> Versions] /\ Idle \in ScanState
                   /\ 1 \in Versions /\ Absent \in Versions /\ 1 \in 1..MaxVersion
                   /\ 0 \in 0..MaxFailures
BY ScannerAssumption DEF NoIndex, Idle, ScanState, Versions, Absent, Steps, Kinds

\* A step of one scan keeps the function of scans one.
LEMMA GoesTyped ==
    ASSUME scan \in [Scans -> ScanState], NEW s \in Scans, NEW to \in ScanState,
           Goes(s, to)
    PROVE  scan' \in [Scans -> ScanState]
BY DEF Goes

\* Every variable keeps its type: in particular the cached index always says,
\* for every ecosystem, which version it holds.
THEOREM TypeCorrect == Spec => []TypeOK
<1>1. ASSUME Init PROVE TypeOK
  <2>1. archive \in [Ecosystems -> Versions]
    BY <1>1, IdleTyped DEF Init
  <2>2. bucket \in [Ecosystems -> 1..MaxVersion]
    BY <1>1, IdleTyped DEF Init
  <2>3. config \in [online : BOOLEAN, offline : BOOLEAN] /\ everOnline \in BOOLEAN
    BY <1>1, ScannerAssumption DEF Init
  <2>4. scan \in [Scans -> ScanState]
    BY <1>1, IdleTyped DEF Init
  <2>5. report \in Report
    BY <1>1, IdleTyped DEF Init, Report, Kinds
  <2>6. landing \in [Ecosystems -> {"none", "ensuring", "written", "landed", "changed", "cleared"}]
    BY <1>1 DEF Init
  <2>7. QED
    BY <1>1, <2>1, <2>2, <2>3, <2>4, <2>5, <2>6, IdleTyped DEF Init, TypeOK
<1>2. ASSUME TypeOK, [Next]_vars PROVE TypeOK'
  <2>0. /\ \A s \in Scans : scan[s] \in ScanState
        /\ scan \in [Scans -> ScanState]
        /\ report \in Report
    BY <1>2 DEF TypeOK
  <2>1. ASSUME NEW e \in Ecosystems, BucketUpdates(e) PROVE TypeOK'
    <3>1. bucket[e] + 1 \in 1..MaxVersion
      <4>1. bucket[e] \in 1..MaxVersion /\ bucket[e] < MaxVersion
        BY <1>2, <2>1 DEF TypeOK, BucketUpdates
      <4>2. QED
        BY <4>1, ScannerAssumption
    <3>2. QED
      BY <1>2, <2>1, <3>1 DEF TypeOK, BucketUpdates, threadVars
  <2>2. ASSUME NEW e \in Ecosystems PROVE bucket[e] \in Versions
    <3>1. bucket[e] \in 1..MaxVersion
      BY <1>2 DEF TypeOK
    <3>2. QED
      BY <3>1, ScannerAssumption DEF Versions, Absent
  <2>3. ASSUME NEW e \in Ecosystems, PeerLands(e) PROVE TypeOK'
    BY <1>2, <2>2, <2>3 DEF TypeOK, PeerLands, threadVars
  <2>4. CASE HourPasses
    BY <1>2, <2>4 DEF TypeOK, HourPasses, diskVars, threadVars
  <2>5. ASSUME NEW c \in Configs, ConfigChanges(c) PROVE TypeOK'
    BY <1>2, <2>5, ScannerAssumption DEF TypeOK, ConfigChanges, diskVars, threadVars
  <2>6. ASSUME NEW s \in Scans, NEW r \in Report, Ends(s, r)
        PROVE  scan' \in [Scans -> ScanState] /\ report' \in Report
    BY <2>6, <2>0, IdleTyped, GoesTyped DEF Ends
  <2>7. ASSUME NEW s \in Scans PROVE Result(s) \in Report
    <3>1. scan[s] \in ScanState
      BY <2>0
    <3>2. QED
      BY <3>1, IdleTyped DEF Result, Report, ScanState
  <2>8. ASSUME NEW s \in Scans, NEW wants \in Projects, Begin(s, wants) PROVE TypeOK'
    <3>1. [Idle EXCEPT !.step = "ready", !.wants = wants, !.floor = promised] \in ScanState
      BY <1>2, IdleTyped, ScannerAssumption DEF TypeOK, ScanState, Steps, Kinds
    <3>2. scan' \in [Scans -> ScanState]
      BY <2>8, <3>1, <2>0, GoesTyped DEF Begin
    <3>3. QED
      BY <1>2, <2>8, <3>2 DEF TypeOK, Begin, diskVars, threadVars
  <2>9. ASSUME NEW s \in Scans, ChecksReady(s) PROVE TypeOK'
    <3>1. [kind |-> "clean", wants |-> {}, checked |-> NoIndex] \in Report
      BY IdleTyped DEF Report, Kinds
    <3>2. scan[s].wants \in SUBSET Ecosystems /\ scan[s] \in ScanState
      BY <2>0 DEF ScanState
    <3>3. /\ [scan[s] EXCEPT !.step = "refresh", !.need = scan[s].wants,
                            !.kind = "archive"] \in ScanState
          /\ [scan[s] EXCEPT !.step = "partial"] \in ScanState
      BY <3>2 DEF ScanState, Steps, Kinds
    <3>4. scan' \in [Scans -> ScanState] /\ report' \in Report
      <4>1. CASE scan[s].wants = {}
        BY <2>6, <2>9, <3>1, <4>1 DEF ChecksReady
      <4>2. CASE scan[s].wants # {}
        BY <2>9, <3>3, <4>2, <2>0, GoesTyped DEF ChecksReady
      <4>3. QED
        BY <4>1, <4>2
    <3>5. QED
      BY <1>2, <2>9, <3>4 DEF TypeOK, ChecksReady, diskVars, threadVars
  <2>10. ASSUME NEW s \in Scans, Refreshes(s) PROVE TypeOK'
    <3>1. scan[s] \in ScanState
      BY <2>0
    <3>2. /\ [scan[s] EXCEPT !.step = "warm", !.next = "index"] \in ScanState
          /\ [scan[s] EXCEPT !.step = "index"] \in ScanState
      BY <1>2, <3>1 DEF TypeOK, ScanState, Steps, Kinds
    <3>3. scan' \in [Scans -> ScanState]
      BY <2>10, <3>2, <2>0, GoesTyped DEF Refreshes
    <3>4. QED
      BY <1>2, <2>10, <3>3 DEF TypeOK, Refreshes, diskVars, threadVars
  <2>11. ASSUME NEW s \in Scans, ChecksPartial(s) PROVE TypeOK'
    <3>1. scan[s] \in ScanState
      BY <2>0
    <3>2. /\ \A here \in SUBSET Ecosystems :
                [scan[s] EXCEPT !.step = "index", !.need = here, !.kind = "partial"]
                    \in ScanState
          /\ [scan[s] EXCEPT !.step = "config"] \in ScanState
          /\ scan[s].wants \subseteq Ecosystems
      BY <1>2, <3>1 DEF TypeOK, ScanState, Steps, Kinds
    <3>3. scan' \in [Scans -> ScanState]
      BY <2>11, <3>2, <2>0, GoesTyped DEF ChecksPartial
    <3>4. QED
      BY <1>2, <2>11, <3>3 DEF TypeOK, ChecksPartial, diskVars, threadVars
  <2>12. ASSUME NEW s \in Scans, LooksUpIndex(s) PROVE TypeOK'
    <3>1. scan[s] \in ScanState
      BY <2>0
    <3>2. /\ [scan[s] EXCEPT !.step = "matched", !.got = index] \in ScanState
          /\ [scan[s] EXCEPT !.step = "load"] \in ScanState
      BY <1>2, <3>1 DEF TypeOK, ScanState, Steps, Kinds
    <3>3. scan' \in [Scans -> ScanState]
      BY <2>12, <3>2, <2>0, GoesTyped DEF LooksUpIndex
    <3>4. QED
      BY <1>2, <2>12, <3>3 DEF TypeOK, LooksUpIndex, diskVars, threadVars
  <2>13. ASSUME NEW s \in Scans, NEW e \in Ecosystems, LoadsArchive(s, e) PROVE TypeOK'
    <3>1. scan[s] \in ScanState
      BY <2>0
    <3>2. [scan[s] EXCEPT !.got[e] = archive[e]] \in ScanState
      BY <1>2, <3>1 DEF TypeOK, ScanState, Steps, Kinds
    <3>3. scan' \in [Scans -> ScanState]
      BY <2>13, <3>2, <2>0, GoesTyped DEF LoadsArchive
    <3>4. QED
      BY <1>2, <2>13, <3>3 DEF TypeOK, LoadsArchive, diskVars, threadVars
  <2>30. ASSUME NEW s \in Scans, ScanFails(s) PROVE TypeOK'
    <3>1. [kind |-> "failed", wants |-> scan[s].wants, checked |-> NoIndex] \in Report
      <4>1. scan[s].wants \in SUBSET Ecosystems
        BY <2>0 DEF ScanState
      <4> QED
        BY <4>1, IdleTyped DEF Report, Kinds
    <3>2. failures' \in 0..MaxFailures
      <4>1. failures \in 0..MaxFailures /\ failures < MaxFailures /\ failures' = failures + 1
        BY <1>2, <2>30 DEF TypeOK, ScanFails
      <4> QED
        BY <4>1, ScannerAssumption
    <3>3. scan' \in [Scans -> ScanState] /\ report' \in Report
      BY <2>6, <2>30, <3>1 DEF ScanFails
    <3> QED
      BY <1>2, <2>30, <3>2, <3>3 DEF TypeOK, ScanFails, diskVars
  <2>14. ASSUME NEW s \in Scans, StoresIndex(s) PROVE TypeOK'
    <3>1. scan[s] \in ScanState
      BY <2>0
    <3>2. /\ [scan[s] EXCEPT !.step = "matched"] \in ScanState
          /\ scan[s].got \in [Ecosystems -> Versions]
      BY <1>2, <3>1 DEF TypeOK, ScanState, Steps, Kinds
    <3>3. scan' \in [Scans -> ScanState]
      BY <2>14, <3>2, <2>0, GoesTyped DEF StoresIndex
    <3>4. QED
      BY <1>2, <2>14, <3>2, <3>3 DEF TypeOK, StoresIndex, diskVars, threadVars
  <2>15. ASSUME NEW s \in Scans, Matches(s) PROVE TypeOK'
    <3>1. scan[s] \in ScanState
      BY <2>0
    <3>2. [scan[s] EXCEPT !.step = "warm", !.next = "done"] \in ScanState
      BY <3>1 DEF ScanState, Steps, Kinds
    <3>3. scan' \in [Scans -> ScanState] /\ report' \in Report
      <4>1. CASE scan[s].kind = "partial"
        BY <2>15, <3>2, <4>1, <2>0, GoesTyped DEF Matches
      <4>2. CASE scan[s].kind # "partial"
        BY <2>6, <2>7, <2>15, <4>2 DEF Matches
      <4>3. QED
        BY <4>1, <4>2
    <3>4. QED
      BY <1>2, <2>15, <3>3 DEF TypeOK, Matches, diskVars, threadVars
  <2>16. ASSUME NEW s \in Scans, Decides(s) PROVE TypeOK'
    <3>1. scan[s] \in ScanState /\ scan[s].wants \subseteq Ecosystems
      BY <2>0 DEF ScanState
    <3>2. ASSUME NEW k \in {"api", "refused"}
          PROVE  [kind |-> k, wants |-> scan[s].wants, checked |-> NoIndex] \in Report
      BY <3>1, IdleTyped DEF Report, Kinds
    <3>3. [scan[s] EXCEPT !.step = "warm", !.next = "done", !.kind = "refused"]
            \in ScanState
      BY <1>2, <3>1 DEF TypeOK, ScanState, Steps, Kinds
    <3>4. scan' \in [Scans -> ScanState] /\ report' \in Report
      <4>1. CASE \E k \in {"api", "refused"} :
              Ends(s, [kind |-> k, wants |-> scan[s].wants, checked |-> NoIndex])
        BY <2>6, <3>2, <4>1
      <4>2. CASE /\ Goes(s, [scan[s] EXCEPT !.step = "warm", !.next = "done",
                                            !.kind = "refused"])
                 /\ UNCHANGED report
        BY <3>3, <4>2, <2>0, GoesTyped
      <4>3. QED
        BY <2>16, <4>1, <4>2 DEF Decides
    <3>5. QED
      BY <1>2, <2>16, <3>4 DEF TypeOK, Decides, diskVars, threadVars
  <2>17. ASSUME NEW s \in Scans, ChecksStopped(s) PROVE TypeOK'
    <3>1. scan[s] \in ScanState
      BY <2>0
    <3>2. /\ \A x \in Steps : [scan[s] EXCEPT !.step = x] \in ScanState
          /\ scan[s].next \in Steps
          /\ "claim" \in Steps
      BY <1>2, <3>1 DEF TypeOK, ScanState, Steps, Kinds
    <3>3. scan' \in [Scans -> ScanState]
      BY <2>17, <3>2, <2>0, GoesTyped DEF ChecksStopped
    <3>4. QED
      BY <1>2, <2>17, <3>3 DEF TypeOK, ChecksStopped, diskVars, threadVars
  <2>18. ASSUME NEW s \in Scans, ClaimsWarm(s) PROVE TypeOK'
    <3>1. scan[s] \in ScanState
      BY <2>0
    <3>2. /\ \A x \in Steps : [scan[s] EXCEPT !.step = x] \in ScanState
          /\ scan[s].next \in Steps
          /\ "capture" \in Steps
      BY <1>2, <3>1 DEF TypeOK, ScanState, Steps, Kinds
    <3>3. scan' \in [Scans -> ScanState]
      BY <2>18, <3>2, <2>0, GoesTyped DEF ClaimsWarm
    <3>4. QED
      BY <1>2, <2>18, <3>3 DEF TypeOK, ClaimsWarm, diskVars, threadVars
  <2>19. ASSUME NEW s \in Scans, CapturesBefore(s) PROVE TypeOK'
    <3>1. scan[s] \in ScanState
      BY <2>0
    <3>2. /\ \A x \in Steps : [scan[s] EXCEPT !.step = x] \in ScanState
          /\ scan[s].next \in Steps
      BY <1>2, <3>1 DEF TypeOK, ScanState, Steps, Kinds
    <3>3. scan' \in [Scans -> ScanState]
      BY <2>19, <3>2, <2>0, GoesTyped DEF CapturesBefore
    <3>4. QED
      BY <1>2, <2>19, <3>3, IdleTyped DEF TypeOK, CapturesBefore, diskVars, threadVars
  <2>20. ASSUME NEW s \in Scans, Finishes(s) PROVE TypeOK'
    BY <1>2, <2>6, <2>7, <2>20 DEF TypeOK, Finishes, diskVars, threadVars
  <2>21. ASSUME NEW e \in Ecosystems, Renames(e) \/ EnsureSucceeds(e) PROVE TypeOK'
    BY <1>2, <2>2, <2>21 DEF TypeOK, Renames, EnsureSucceeds, Step, diskVars
  <2>22. ASSUME NEW e \in Ecosystems, EnsureFails(e) PROVE TypeOK'
    <3>1. failures' \in 0..MaxFailures
      <4>1. /\ failures \in 0..MaxFailures /\ failures < MaxFailures
            /\ failures' = failures + 1
        BY <1>2, <2>22 DEF TypeOK, EnsureFails
      <4>2. QED
        BY <4>1, ScannerAssumption
    <3>2. QED
      BY <1>2, <2>22, <3>1 DEF TypeOK, EnsureFails, Step, diskVars
  <2>23. ASSUME NEW e \in Ecosystems, Landed(e) PROVE TypeOK'
    BY <1>2, <2>23 DEF TypeOK, Landed, Step, diskVars
  <2>24. ASSUME NEW e \in Ecosystems, DropsIndex(e) PROVE TypeOK'
    BY <1>2, <2>24, IdleTyped DEF TypeOK, DropsIndex, Step, diskVars
  <2>25. ASSUME NEW e \in Ecosystems, OnReady(e) PROVE TypeOK'
    BY <1>2, <2>25 DEF TypeOK, OnReady, Step, diskVars
  <2>26. CASE ThreadEnds
    BY <1>2, <2>26 DEF TypeOK, ThreadEnds, diskVars
  <2>27. CASE ShutdownBegins \/ ShutdownReturns
    BY <1>2, <2>27 DEF TypeOK, ShutdownBegins, ShutdownReturns, diskVars, threadVars
  <2>28. CASE UNCHANGED vars
    BY <1>2, <2>28 DEF TypeOK, vars, diskVars, threadVars
  <2>29. QED
    BY <1>2, <2>1, <2>3, <2>4, <2>5, <2>8, <2>9, <2>10, <2>11, <2>12, <2>13, <2>14, <2>15,
       <2>16, <2>17, <2>18, <2>19, <2>20, <2>21, <2>22, <2>23, <2>24, <2>25, <2>26,
       <2>27, <2>28, <2>30 DEF Next, ScanSteps, Download
<1>3. QED
  BY <1>1, <1>2, PTL DEF Spec

-----------------------------------------------------------------------------
(* A report claims no more than was matched.                               *)

\* What is true of a scan wherever it is: it reports a complete archive only if
\* it needed everything it wanted and found it, and not after a warm() that
\* follows a partial report or a refusal.
Sane(st) ==
    /\ st.kind = "archive" => st.need = st.wants
    /\ st.step = "matched" => \A e \in st.need : st.got[e] # Absent
    /\ st.step = "done" \/ st.next = "done" => st.kind # "archive"
    /\ st.step = "ready" => st.next = "idle"

ScansSane == \A s \in Scans : Sane(scan[s])

\* Only the scan that moves has to be looked at.
LEMMA GoesSane ==
    ASSUME TypeOK, ScansSane, NEW s \in Scans, NEW to, Sane(to), Goes(s, to)
    PROVE  ScansSane'
BY DEF TypeOK, ScansSane, Goes, Sane

\* A scan that ends leaves the others alone, and an honest result is honest.
LEMMA EndsSane ==
    ASSUME TypeOK, ScansSane, CoverageHonest, NEW s \in Scans, NEW r, Ends(s, r),
           r.kind = "archive" => \A e \in r.wants : r.checked[e] # Absent
    PROVE  ScansSane' /\ CoverageHonest'
<1>1. Sane(Idle)
  BY DEF Sane, Idle
<1>2. QED
  BY <1>1, GoesSane DEF Ends, CoverageHonest

\* A result is honest once the scan is past the matcher, or is not complete.
LEMMA ResultHonest ==
    ASSUME TypeOK, ScansSane, NEW s \in Scans, At(s, "matched") \/ At(s, "done")
    PROVE  Result(s).kind = "archive"
              => \A e \in Result(s).wants : Result(s).checked[e] # Absent
BY DEF TypeOK, ScanState, ScansSane, Sane, At, Result

\* "An unchecked ecosystem produces a report that looks exactly like a clean
\* one" (engine.rs): the scanner never says it checked an ecosystem it did not
\* look up, whatever scans, downloads and peers do to the index meanwhile.
THEOREM CoverageHonestHolds == Spec => []CoverageHonest
<1> DEFINE Inv == TypeOK /\ ScansSane /\ CoverageHonest
           Kept == ScansSane' /\ CoverageHonest'
<1>1. ASSUME Init PROVE ScansSane /\ CoverageHonest
  BY <1>1 DEF Init, ScansSane, Sane, Idle, CoverageHonest
<1>2. ASSUME Inv, [Next]_vars PROVE ScansSane' /\ CoverageHonest'
  <2>1. ASSUME UNCHANGED <<scan, report>> PROVE Kept
    BY <1>2, <2>1 DEF ScansSane, CoverageHonest
  <2>2. ASSUME NEW s \in Scans, NEW to, Sane(to), Goes(s, to), UNCHANGED report
        PROVE  Kept
    BY <1>2, <2>2, GoesSane DEF CoverageHonest
  <2>3. ASSUME NEW s \in Scans
        PROVE  /\ scan[s] \in ScanState
               /\ Sane(scan[s])
    BY <1>2 DEF TypeOK, ScansSane
  <2>4. ASSUME NEW e \in Ecosystems, BucketUpdates(e) \/ PeerLands(e) \/ Download(e)
        PROVE  Kept
    BY <2>1, <2>4 DEF BucketUpdates, PeerLands, Download, Renames, EnsureSucceeds, EnsureFails,
                      Landed, DropsIndex, OnReady
  <2>5. CASE HourPasses \/ ThreadEnds \/ ShutdownBegins \/ ShutdownReturns
    BY <2>1, <2>5 DEF HourPasses, ThreadEnds, ShutdownBegins, ShutdownReturns
  <2>6. ASSUME NEW c \in Configs, ConfigChanges(c) PROVE Kept
    BY <2>1, <2>6 DEF ConfigChanges
  <2>7. ASSUME NEW s \in Scans, NEW wants \in Projects, Begin(s, wants) PROVE Kept
    <3>1. Sane([Idle EXCEPT !.step = "ready", !.wants = wants, !.floor = promised])
      BY DEF Sane, Idle
    <3>2. QED
      BY <2>2, <2>7, <3>1 DEF Begin
  <2>8. ASSUME NEW s \in Scans, ChecksReady(s) PROVE Kept
    <3>1. CASE scan[s].wants = {}
      BY <1>2, <2>8, <3>1, EndsSane DEF ChecksReady
    <3>2. CASE scan[s].wants # {}
      <4>1. Sane([scan[s] EXCEPT !.step = "refresh", !.need = scan[s].wants,
                                 !.kind = "archive"])
        BY <2>3, <2>8 DEF ScanState, Sane, ChecksReady, At
      <4>2. Sane([scan[s] EXCEPT !.step = "partial"])
        BY <2>3, <2>8 DEF ScanState, Sane, ChecksReady, At
      <4>3. QED
        BY <2>2, <2>8, <3>2, <4>1, <4>2 DEF ChecksReady
    <3>3. QED
      BY <3>1, <3>2
  <2>9. ASSUME NEW s \in Scans, Refreshes(s) PROVE Kept
    <3>1. Sane([scan[s] EXCEPT !.step = "warm", !.next = "index"])
      BY <2>3 DEF ScanState, Sane
    <3>2. Sane([scan[s] EXCEPT !.step = "index"])
      BY <2>3 DEF ScanState, Sane
    <3>3. QED
      BY <2>2, <2>9, <3>1, <3>2 DEF Refreshes
  <2>10. ASSUME NEW s \in Scans, ChecksPartial(s) PROVE Kept
    <3>1. ASSUME NEW here
          PROVE  Sane([scan[s] EXCEPT !.step = "index", !.need = here,
                                      !.kind = "partial"])
      BY <2>3 DEF ScanState, Sane
    <3>2. Sane([scan[s] EXCEPT !.step = "config"])
      BY <2>3 DEF ScanState, Sane
    <3>3. QED
      BY <2>2, <2>10, <3>1, <3>2 DEF ChecksPartial
  <2>11. ASSUME NEW s \in Scans, LooksUpIndex(s) PROVE Kept
    <3>1. CASE Covers(scan[s].need)
      <4>1. Sane([scan[s] EXCEPT !.step = "matched", !.got = index])
        BY <2>3, <3>1 DEF ScanState, Sane, Covers
      <4>2. QED
        BY <2>2, <2>11, <3>1, <4>1 DEF LooksUpIndex
    <3>2. CASE ~Covers(scan[s].need)
      <4>1. Sane([scan[s] EXCEPT !.step = "load"])
        BY <2>3 DEF ScanState, Sane
      <4>2. QED
        BY <2>2, <2>11, <3>2, <4>1 DEF LooksUpIndex
    <3>3. QED
      BY <3>1, <3>2
  <2>12. ASSUME NEW s \in Scans, NEW e \in Ecosystems, LoadsArchive(s, e) PROVE Kept
    <3>1. Sane([scan[s] EXCEPT !.got[e] = archive[e]])
      BY <2>3, <2>12 DEF ScanState, Sane, LoadsArchive, At
    <3>2. QED
      BY <2>2, <2>12, <3>1 DEF LoadsArchive
  <2>20. ASSUME NEW s \in Scans, ScanFails(s) PROVE Kept
    BY <1>2, <2>20, EndsSane DEF ScanFails
  <2>13. ASSUME NEW s \in Scans, StoresIndex(s) PROVE Kept
    <3>1. Sane([scan[s] EXCEPT !.step = "matched"])
      BY <2>3, <2>13 DEF ScanState, Sane, StoresIndex
    <3>2. QED
      BY <2>2, <2>13, <3>1 DEF StoresIndex
  <2>14. ASSUME NEW s \in Scans, Matches(s) PROVE Kept
    <3>1. CASE scan[s].kind = "partial"
      <4>1. Sane([scan[s] EXCEPT !.step = "warm", !.next = "done"])
        BY <2>3, <3>1 DEF ScanState, Sane
      <4>2. QED
        BY <2>2, <2>14, <3>1, <4>1 DEF Matches
    <3>2. CASE scan[s].kind # "partial"
      BY <1>2, <2>14, <3>2, EndsSane, ResultHonest DEF Matches
    <3>3. QED
      BY <3>1, <3>2
  <2>15. ASSUME NEW s \in Scans, Decides(s) PROVE Kept
    <3>1. ASSUME NEW k \in {"api", "refused"},
                 Ends(s, [kind |-> k, wants |-> scan[s].wants, checked |-> NoIndex])
          PROVE  Kept
      BY <1>2, <3>1, EndsSane
    <3>2. Sane([scan[s] EXCEPT !.step = "warm", !.next = "done", !.kind = "refused"])
      BY <2>3 DEF ScanState, Sane
    <3>3. QED
      BY <2>2, <2>15, <3>1, <3>2 DEF Decides
  <2>16. ASSUME NEW s \in Scans, ChecksStopped(s) \/ ClaimsWarm(s) \/ CapturesBefore(s)
         PROVE  Kept
    <3>1. ASSUME NEW x \in {"claim", "capture", scan[s].next},
                 At(s, "warm") \/ At(s, "claim") \/ At(s, "capture")
          PROVE  Sane([scan[s] EXCEPT !.step = x])
      BY <2>3, <3>1 DEF ScanState, Sane, At
    <3>2. QED
      BY <2>2, <2>16, <3>1 DEF ChecksStopped, ClaimsWarm, CapturesBefore
  <2>17. ASSUME NEW s \in Scans, Finishes(s) PROVE Kept
    BY <1>2, <2>17, EndsSane, ResultHonest DEF Finishes
  <2>18. CASE UNCHANGED vars
    BY <2>1, <2>18 DEF vars
  <2>19. QED
    BY <1>2, <2>4, <2>5, <2>6, <2>7, <2>8, <2>9, <2>10, <2>11, <2>12, <2>13, <2>14,
       <2>15, <2>16, <2>17, <2>18, <2>20 DEF Next, ScanSteps
<1>3. QED
  BY <1>1, <1>2, TypeCorrect, PTL DEF Spec

-----------------------------------------------------------------------------
(* One download at a time.                                                 *)

\* Between the claim and the thread exactly one scan holds the claim: a step
\* of another scan changes nothing to it.
LEMMA OwnedByOthers ==
    ASSUME TypeOK, WarmingIsOwned, NEW s \in Scans, NEW to, Goes(s, to),
           ~At(s, "capture"), to.step # "capture",
           UNCHANGED <<warming, running>>
    PROVE  WarmingIsOwned'
<1>1. \A t \in Scans : At(t, "capture")' <=> At(t, "capture")
  BY DEF TypeOK, Goes, At
<1>2. QED
  BY <1>1 DEF WarmingIsOwned

\* No second download starts while one runs or is about to, and `warming`
\* never stays up with nobody to clear it.
THEOREM WarmingIsOwnedHolds == Spec => []WarmingIsOwned
<1>1. ASSUME Init PROVE WarmingIsOwned
  BY <1>1 DEF Init, WarmingIsOwned, At, Idle
<1>2. ASSUME TypeOK, WarmingIsOwned, [Next]_vars PROVE WarmingIsOwned'
  <2>1. ASSUME UNCHANGED <<warming, running, scan>> PROVE WarmingIsOwned'
    BY <1>2, <2>1 DEF WarmingIsOwned, At
  <2>2. ASSUME NEW s \in Scans PROVE scan[s] \in ScanState
    BY <1>2 DEF TypeOK
  <2>3. ASSUME NEW e \in Ecosystems, BucketUpdates(e) \/ PeerLands(e) \/ Download(e)
        PROVE  WarmingIsOwned'
    BY <2>1, <2>3 DEF BucketUpdates, PeerLands, Download, Renames, EnsureSucceeds, EnsureFails,
                      Landed, DropsIndex, OnReady, threadVars
  <2>4. CASE HourPasses \/ ShutdownBegins \/ ShutdownReturns
    BY <2>1, <2>4 DEF HourPasses, ShutdownBegins, ShutdownReturns, threadVars
  <2>5. ASSUME NEW c \in Configs, ConfigChanges(c) PROVE WarmingIsOwned'
    BY <2>1, <2>5 DEF ConfigChanges, threadVars
  <2>6. CASE ThreadEnds
    BY <1>2, <2>6 DEF ThreadEnds, WarmingIsOwned, At
  <2>7. ASSUME NEW s \in Scans, NEW wants \in Projects, Begin(s, wants)
        PROVE  WarmingIsOwned'
    <3>1. [Idle EXCEPT !.step = "ready", !.wants = wants, !.floor = promised].step
            # "capture"
      BY DEF Idle
    <3>2. QED
      BY <1>2, <2>7, <3>1, OwnedByOthers DEF Begin, At, threadVars
  <2>8. ASSUME NEW s \in Scans, NEW r, Ends(s, r), ~At(s, "capture"),
               UNCHANGED <<warming, running>>
        PROVE  WarmingIsOwned'
    <3>1. Idle.step # "capture"
      BY DEF Idle
    <3>2. QED
      BY <1>2, <2>8, <3>1, OwnedByOthers DEF Ends
  <2>9. ASSUME NEW s \in Scans, ChecksReady(s) PROVE WarmingIsOwned'
    <3>1. /\ [scan[s] EXCEPT !.step = "refresh", !.need = scan[s].wants,
                             !.kind = "archive"].step # "capture"
          /\ [scan[s] EXCEPT !.step = "partial"].step # "capture"
      BY <2>2 DEF ScanState
    <3>2. ~At(s, "capture") /\ UNCHANGED <<warming, running>>
      BY <2>9 DEF ChecksReady, At, threadVars
    <3>3. QED
      BY <1>2, <2>8, <2>9, <3>1, <3>2, OwnedByOthers DEF ChecksReady
  <2>10. ASSUME NEW s \in Scans, Refreshes(s) \/ ChecksPartial(s) \/ LooksUpIndex(s)
         PROVE  WarmingIsOwned'
    <3>1. ASSUME NEW here
          PROVE  /\ [scan[s] EXCEPT !.step = "warm", !.next = "index"].step # "capture"
                 /\ [scan[s] EXCEPT !.step = "index"].step # "capture"
                 /\ [scan[s] EXCEPT !.step = "index", !.need = here,
                                    !.kind = "partial"].step # "capture"
                 /\ [scan[s] EXCEPT !.step = "config"].step # "capture"
                 /\ [scan[s] EXCEPT !.step = "matched", !.got = index].step # "capture"
                 /\ [scan[s] EXCEPT !.step = "load"].step # "capture"
      BY <2>2 DEF ScanState
    <3>2. ~At(s, "capture") /\ UNCHANGED <<warming, running>>
      BY <2>10 DEF Refreshes, ChecksPartial, LooksUpIndex, At, threadVars
    <3>3. QED
      BY <1>2, <2>10, <3>1, <3>2, OwnedByOthers DEF Refreshes, ChecksPartial, LooksUpIndex
  <2>11. ASSUME NEW s \in Scans,
                \/ \E e \in Ecosystems : LoadsArchive(s, e)
                \/ StoresIndex(s)
         PROVE  WarmingIsOwned'
    <3>1. /\ \A e \in Ecosystems : At(s, "load") =>
               [scan[s] EXCEPT !.got[e] = archive[e]].step # "capture"
          /\ [scan[s] EXCEPT !.step = "matched"].step # "capture"
      BY <2>2 DEF ScanState, At
    <3>2. ~At(s, "capture") /\ UNCHANGED <<warming, running>>
      BY <2>11 DEF LoadsArchive, StoresIndex, At, threadVars
    <3>3. QED
      BY <1>2, <2>11, <3>1, <3>2, OwnedByOthers DEF LoadsArchive, StoresIndex
  <2>18. ASSUME NEW s \in Scans, ScanFails(s) PROVE WarmingIsOwned'
    BY <2>8, <2>18 DEF ScanFails, At
  <2>12. ASSUME NEW s \in Scans, Matches(s) \/ Decides(s) \/ Finishes(s)
         PROVE  WarmingIsOwned'
    <3>1. /\ [scan[s] EXCEPT !.step = "warm", !.next = "done"].step # "capture"
          /\ [scan[s] EXCEPT !.step = "warm", !.next = "done",
                             !.kind = "refused"].step # "capture"
      BY <2>2 DEF ScanState
    <3>2. ~At(s, "capture") /\ UNCHANGED <<warming, running>>
      BY <2>12 DEF Matches, Decides, Finishes, At, threadVars
    <3>3. QED
      BY <1>2, <2>8, <2>12, <3>1, <3>2, OwnedByOthers DEF Matches, Decides, Finishes
  <2>13. ASSUME NEW s \in Scans, ChecksStopped(s) PROVE WarmingIsOwned'
    <3>1. [scan[s] EXCEPT !.step = IF stopped THEN scan[s].next ELSE "claim"].step
            # "capture"
      BY <2>2 DEF ScanState
    <3>2. ~At(s, "capture") /\ UNCHANGED <<warming, running>>
      BY <2>13 DEF ChecksStopped, At, threadVars
    <3>3. QED
      BY <1>2, <2>13, <3>1, <3>2, OwnedByOthers DEF ChecksStopped
  <2>14. ASSUME NEW s \in Scans, ClaimsWarm(s) PROVE WarmingIsOwned'
    <3>1. CASE warming
      <4>1. [scan[s] EXCEPT !.step = scan[s].next].step # "capture"
        BY <2>2 DEF ScanState
      <4>2. ~At(s, "capture") /\ UNCHANGED <<warming, running>>
        BY <1>2, <2>14, <3>1 DEF TypeOK, ClaimsWarm, At, threadVars
      <4>3. Goes(s, [scan[s] EXCEPT !.step = scan[s].next])
        BY <2>14, <3>1 DEF ClaimsWarm
      <4>4. QED
        BY <1>2, <4>1, <4>2, <4>3, OwnedByOthers
    <3>2. CASE ~warming
      <4>1. \A t \in Scans : At(t, "capture")' <=> t = s
        <5>1. \A t \in Scans : ~At(t, "capture")
          BY <1>2, <3>2 DEF WarmingIsOwned
        <5>2. scan' = [scan EXCEPT ![s] = [scan[s] EXCEPT !.step = "capture"]]
          BY <2>14, <3>2 DEF ClaimsWarm, Goes
        <5>3. QED
          BY <1>2, <2>2, <5>1, <5>2 DEF TypeOK, ScanState, At
      <4>2. ~running /\ UNCHANGED running /\ warming'
        BY <1>2, <2>14, <3>2 DEF WarmingIsOwned, ClaimsWarm, threadVars
      <4>3. QED
        BY <4>1, <4>2 DEF WarmingIsOwned
    <3>3. QED
      BY <3>1, <3>2
  <2>15. ASSUME NEW s \in Scans, CapturesBefore(s) PROVE WarmingIsOwned'
    <3>1. \A t \in Scans : At(t, "capture") <=> t = s
      BY <1>2, <2>15 DEF WarmingIsOwned, CapturesBefore
    <3>2. \A t \in Scans : ~At(t, "capture")'
      <4>1. scan[s].next # "capture"
        BY <2>2 DEF ScanState
      <4>2. scan' = [scan EXCEPT ![s] = [scan[s] EXCEPT !.step = scan[s].next]]
        BY <2>15 DEF CapturesBefore, Goes
      <4>3. QED
        BY <1>2, <2>2, <3>1, <4>1, <4>2 DEF TypeOK, ScanState, At
    <3>3. warming /\ UNCHANGED warming /\ running'
      BY <1>2, <2>15 DEF WarmingIsOwned, CapturesBefore
    <3>4. QED
      BY <3>2, <3>3 DEF WarmingIsOwned
  <2>16. CASE UNCHANGED vars
    BY <2>1, <2>16 DEF vars, threadVars
  <2>17. QED
    BY <1>2, <2>3, <2>4, <2>5, <2>6, <2>7, <2>9, <2>10, <2>11, <2>12, <2>13, <2>14,
       <2>15, <2>16, <2>18 DEF Next, ScanSteps
<1>3. QED
  BY <1>1, <1>2, TypeCorrect, PTL DEF Spec

-----------------------------------------------------------------------------
(* After shutdown.                                                         *)

\* shutdown() raised the flag first; ecosystems are landing only on a thread;
\* and once the wait is over nothing is on its way to on_ready().
Stopping ==
    /\ shutdown # "no" => stopped
    /\ \A e \in Ecosystems : landing[e] # "none" => running
    /\ shutdown = "done" => \A e \in Ecosystems : landing[e] \notin {"changed", "cleared"}

\* Every step keeps it.
LEMMA StoppingHolds == Spec => []Stopping
<1>1. ASSUME Init PROVE Stopping
  BY <1>1 DEF Init, Stopping
<1>2. ASSUME TypeOK, WarmingIsOwned, Stopping, [Next]_vars PROVE Stopping'
  <2>1. ASSUME UNCHANGED <<shutdown, stopped, landing, running>> PROVE Stopping'
    BY <1>2, <2>1 DEF Stopping
  <2>2. ASSUME NEW e \in Ecosystems, BucketUpdates(e) \/ PeerLands(e) PROVE Stopping'
    BY <2>1, <2>2 DEF BucketUpdates, PeerLands, threadVars
  <2>3. ASSUME NEW e \in Ecosystems, Renames(e) \/ EnsureSucceeds(e) \/ EnsureFails(e)
        PROVE  Stopping'
    BY <1>2, <2>3 DEF TypeOK, Stopping, Renames, EnsureSucceeds, EnsureFails, Step
  <2>4. ASSUME NEW e \in Ecosystems, Landed(e) PROVE Stopping'
    BY <1>2, <2>4 DEF TypeOK, Stopping, Landed, Step
  <2>5. ASSUME NEW e \in Ecosystems, DropsIndex(e) PROVE Stopping'
    BY <1>2, <2>5 DEF TypeOK, Stopping, DropsIndex, Step
  <2>6. ASSUME NEW e \in Ecosystems, OnReady(e) PROVE Stopping'
    BY <1>2, <2>6 DEF TypeOK, Stopping, OnReady, Step
  <2>7. CASE HourPasses
    BY <2>1, <2>7 DEF HourPasses, threadVars
  <2>8. ASSUME NEW c \in Configs, ConfigChanges(c) PROVE Stopping'
    BY <2>1, <2>8 DEF ConfigChanges, threadVars
  <2>9. CASE ThreadEnds
    BY <1>2, <2>9 DEF Stopping, ThreadEnds
  <2>10. CASE ShutdownBegins
    BY <1>2, <2>10 DEF Stopping, ShutdownBegins, threadVars
  <2>11. CASE ShutdownReturns
    BY <1>2, <2>11 DEF Stopping, ShutdownReturns, WarmingIsOwned, threadVars
  <2>12. ASSUME NEW s \in Scans, NEW wants \in Projects, Begin(s, wants) PROVE Stopping'
    BY <2>1, <2>12 DEF Begin, threadVars
  <2>13. ASSUME NEW s \in Scans, CapturesBefore(s) PROVE Stopping'
    BY <1>2, <2>13 DEF TypeOK, Stopping, CapturesBefore
  <2>14. ASSUME NEW s \in Scans, ScanSteps(s), ~CapturesBefore(s) PROVE Stopping'
    BY <2>1, <2>14 DEF ScanSteps, ChecksReady, Refreshes, ChecksPartial, LooksUpIndex,
                       LoadsArchive, ScanFails, StoresIndex, Matches, Decides, ChecksStopped,
                       ClaimsWarm, Finishes, threadVars
  <2>15. CASE UNCHANGED vars
    BY <2>1, <2>15 DEF vars, threadVars
  <2>16. QED
    BY <1>2, <2>2, <2>3, <2>4, <2>5, <2>6, <2>7, <2>8, <2>9, <2>10, <2>11, <2>12, <2>13,
       <2>14, <2>15 DEF Next, Download
<1>3. QED
  BY <1>1, <1>2, TypeCorrect, WarmingIsOwnedHolds, PTL DEF Spec

\* A download that shutdown() did not time out on asks nothing of an engine
\* that is gone, even one started by a scan that had looked at the flag before.
THEOREM NoRescanHolds == Spec => NoRescanAfterShutdown
<1>1. Stopping => [shutdown = "done" => ~\E e \in Ecosystems : OnReady(e)]_vars
  BY DEF Stopping, OnReady, Step
<1>2. QED
  BY <1>1, StoppingHolds, PTL DEF NoRescanAfterShutdown

-----------------------------------------------------------------------------
(* A scan that was refused is retried.                                     *)

\* One set of ecosystems, or none: a download under way is for what every
\* scan wants.  Without it a request made meanwhile is dropped, and the
\* archive it was about is not fetched (ScannerNewEcosystem.cfg).
OneProject == \A p, q \in Projects : p # {} /\ q # {} => p = q

Wanted == UNION Projects
Short  == {"partial", "refused"}

\* Something will still change for e: it is not there, or its arrival has not
\* been announced.
Open(e) ==
    \/ archive[e] = Absent
    \/ landing[e] \in {"written", "landed"} /\ before[e] = Absent
    \/ landing[e] \in {"changed", "cleared"}
Retry     == rescan \/ \E e \in Wanted : Open(e)
RetrySure == rescan \/ (warming /\ \E e \in Wanted : Open(e))

\* What is true of a scan wherever it is.
Placed(st) ==
    /\ st.step # "idle" => st.wants \in Projects
    /\ st.step \notin {"idle", "ready"} => st.wants # {}
    /\ st.step \in {"warm", "claim", "capture"} => st.next \in {"index", "done"}
    /\ st.kind = "refused" => /\ st.step \in {"warm", "claim", "capture", "done"}
                              /\ st.next = "done"

ScansPlaced == \A s \in Scans : Placed(scan[s])

\* The thread has every missing archive still in hand, and compares it with
\* the absence it captured.
InHand ==
    /\ running => \A e \in Wanted : archive[e] = Absent => landing[e] = "ensuring"
    /\ \A e \in Ecosystems : landing[e] = "ensuring" /\ archive[e] = Absent
                                => before[e] = Absent
    /\ \A e \in Ecosystems : landing[e] \in {"written", "landed"} => archive[e] # Absent

\* From the look at the disk to the report, a scan that is short of an archive
\* has a rescan ahead of it; from the claim on somebody works on it.
Owes(st, r) ==
    /\ st.step \in {"partial", "config"} \/ st.kind \in Short => Retry
    /\ st.step = "done" /\ st.kind \in Short => RetrySure
    /\ st.step = "idle" /\ r.kind \in Short => RetrySure \/ config.offline

Normal == ~stopped /\ failures = 0

RetryInv == ScansPlaced /\ (Normal => InHand /\ Owes(scan[latest], report))

\* A scan that wants anything wants what every scan wants.
LEMMA WantsAll ==
    ASSUME OneProject, NEW w \in Projects, w # {}
    PROVE  w = Wanted
<1>1. ASSUME NEW p \in Projects, NEW e \in p PROVE e \in w
  BY <1>1 DEF OneProject
<1> QED
  BY <1>1, Zenon DEF Wanted

\* What a scan owes reads nothing else.
LEMMA OwesKept ==
    ASSUME RetryInv, UNCHANGED <<scan, latest, report>>,
           Normal' => Normal /\ InHand' /\ (Retry => Retry') /\ (RetrySure => RetrySure')
                      /\ (config.offline => config'.offline \/ rescan')
    PROVE  RetryInv'
BY DEF RetryInv, ScansPlaced, Owes, RetrySure

\* A step of one scan, which touches nothing that the debt depends on, has to
\* settle that of this scan only.
LEMMA GoesOn ==
    ASSUME TypeOK, RetryInv, NEW s \in Scans, NEW to, Goes(s, to), Placed(to),
           UNCHANGED <<archive, landing, before, running, config, stopped, failures,
                       rescan, latest>>,
           warming => warming',
           s # latest => UNCHANGED report,
           s = latest /\ Normal => Owes(to, report')
    PROVE  RetryInv'
<1>1. ScansPlaced'
  BY DEF TypeOK, RetryInv, ScansPlaced, Goes, Placed
<1>2. ASSUME Normal PROVE InHand'
  BY <1>2 DEF RetryInv, InHand
<1>3. ASSUME Normal PROVE Owes(scan[latest], report)'
  <2>1. CASE s = latest
    <3>1. scan'[latest'] = to
      BY <2>1 DEF TypeOK, Goes
    <3>2. (Retry => Retry') /\ (RetrySure => RetrySure')
      BY DEF Retry, RetrySure, Open
    <3> QED
      BY <1>3, <2>1, <3>1, <3>2 DEF Owes
  <2>2. CASE s # latest
    <3>1. scan'[latest'] = scan[latest]
      BY <2>2 DEF TypeOK, Goes
    <3>2. (Retry => Retry') /\ (RetrySure => RetrySure')
      BY DEF Retry, RetrySure, Open
    <3> QED
      BY <1>3, <2>2, <3>1, <3>2 DEF RetryInv, Owes
  <2> QED
    BY <2>1, <2>2
<1> QED
  BY <1>1, <1>2, <1>3 DEF RetryInv, Normal

\* An end that reports nothing short owes nothing.
LEMMA EndsOn ==
    ASSUME TypeOK, RetryInv, NEW s \in Scans, NEW r, Ends(s, r),
           UNCHANGED <<archive, landing, before, running, config, stopped, failures,
                       rescan, latest, warming>>,
           s = latest /\ Normal => (r.kind \in Short => RetrySure \/ config.offline)
    PROVE  RetryInv'
<1>1. Placed(Idle)
  BY DEF Placed, Idle
<1>2. s = latest /\ Normal => Owes(Idle, report')
  BY DEF Owes, Idle, Ends, Short
<1> QED
  BY <1>1, <1>2, GoesOn DEF Ends

\* What the thread and the disk do leaves every debt in somebody's hands.
LEMMA DownloadOn ==
    ASSUME TypeOK, RetryInv, NEW e \in Ecosystems, Download(e)
    PROVE  RetryInv'
<1>0. Wanted \subseteq Ecosystems
  BY ScannerAssumption DEF Wanted
<1>1. CASE Renames(e)
  <2>1. archive'[e] # Absent /\ \A x \in Ecosystems : x # e => archive'[x] = archive[x]
    <3>1. bucket[e] # Absent
      <4>1. bucket[e] \in 1..MaxVersion
        BY DEF TypeOK
      <4> QED
        BY <4>1, ScannerAssumption DEF Absent
    <3> QED
      BY <1>1, <3>1 DEF TypeOK, Renames
  <2>2. /\ landing[e] = "ensuring" /\ landing'[e] = "written"
        /\ \A x \in Ecosystems : x # e => landing'[x] = landing[x]
        /\ UNCHANGED <<running, before>>
    BY <1>1 DEF TypeOK, Renames, Step
  <2>3. ASSUME Normal PROVE InHand'
    <3>1. ASSUME NEW x \in Wanted, running, archive'[x] = Absent
          PROVE  landing'[x] = "ensuring"
      BY <1>0, <2>1, <2>2, <2>3, <3>1 DEF RetryInv, InHand
    <3>2. ASSUME NEW x \in Ecosystems, landing'[x] = "ensuring", archive'[x] = Absent
          PROVE  before[x] = Absent
      BY <2>1, <2>2, <2>3, <3>2 DEF RetryInv, InHand
    <3>3. ASSUME NEW x \in Ecosystems, landing'[x] \in {"written", "landed"}
          PROVE  archive'[x] # Absent
      BY <2>1, <2>2, <2>3, <3>3 DEF RetryInv, InHand
    <3> QED
      BY <2>2, <3>1, <3>2, <3>3 DEF InHand
  <2>4. ASSUME Normal, NEW x \in Wanted, Open(x) PROVE Open(x)'
    <3>1. CASE x = e
      BY <2>2, <2>4, <3>1, <1>0 DEF RetryInv, InHand, Open
    <3>2. CASE x # e
      BY <1>0, <2>1, <2>2, <2>4, <3>2 DEF Open
    <3> QED
      BY <3>1, <3>2
  <2> QED
    BY <1>1, <2>3, <2>4, OwesKept DEF Renames, Normal, Retry, RetrySure
<1>2. CASE EnsureSucceeds(e)
  <2>1. /\ landing[e] \in {"ensuring", "written"} /\ landing'[e] = "landed"
        /\ \A x \in Ecosystems : x # e => landing'[x] = landing[x]
        /\ UNCHANGED <<archive, running, before>> /\ archive[e] # Absent
    BY <1>2 DEF TypeOK, EnsureSucceeds, Step, diskVars
  <2>2. ASSUME Normal PROVE InHand'
    BY <1>0, <2>1, <2>2 DEF RetryInv, InHand
  <2>3. ASSUME Normal, NEW x \in Wanted, Open(x) PROVE Open(x)'
    <3>1. CASE x = e
      BY <2>1, <2>3, <3>1, <1>0 DEF Open
    <3>2. CASE x # e
      BY <1>0, <2>1, <2>3, <3>2 DEF Open
    <3> QED
      BY <3>1, <3>2
  <2> QED
    BY <1>2, <2>2, <2>3, OwesKept DEF EnsureSucceeds, Normal, Retry, RetrySure
<1>3. CASE EnsureFails(e)
  <2>1. failures' # 0
    <3>1. failures \in 0..MaxFailures /\ failures' = failures + 1
      BY <1>3 DEF TypeOK, EnsureFails
    <3> QED
      BY <3>1, ScannerAssumption
  <2> QED
    BY <1>3, <2>1, OwesKept DEF EnsureFails, Normal
<1>4. CASE Landed(e) \/ DropsIndex(e) \/ OnReady(e)
  <2>1. \A x \in Ecosystems : x # e => landing'[x] = landing[x]
    BY <1>4 DEF TypeOK, Landed, DropsIndex, OnReady, Step
  <2>2. landing[e] # "ensuring" /\ landing'[e] \notin {"ensuring", "written", "landed"}
    BY <1>4 DEF TypeOK, Landed, DropsIndex, OnReady, Step
  <2>3. UNCHANGED <<archive, before, running, warming, scan, latest, report, config,
                    stopped, failures>>
    BY <1>4 DEF Landed, DropsIndex, OnReady, diskVars
  <2>4. ASSUME Normal PROVE InHand'
    <3>1. Wanted \subseteq Ecosystems
      BY ScannerAssumption DEF Wanted
    <3> QED
      BY <2>1, <2>2, <2>3, <2>4, <3>1 DEF RetryInv, InHand
  <2>5. ASSUME Normal, NEW x \in Wanted, Open(x) PROVE Open(x)' \/ rescan'
    <3>1. x \in Ecosystems
      BY ScannerAssumption DEF Wanted
    <3>2. CASE x = e
      <4>1. CASE Landed(e)
        BY <2>3, <2>5, <3>2, <4>1 DEF TypeOK, RetryInv, InHand, Normal, Open, Landed, Step
      <4>2. CASE DropsIndex(e)
        BY <3>2, <4>2 DEF TypeOK, Open, DropsIndex, Step
      <4>3. CASE OnReady(e)
        BY <4>3 DEF OnReady
      <4> QED
        BY <1>4, <4>1, <4>2, <4>3
    <3>3. CASE x # e
      BY <2>1, <2>3, <2>5, <3>1, <3>3 DEF Open
    <3> QED
      BY <3>2, <3>3
  <2>6. rescan => rescan'
    BY <1>4 DEF Landed, DropsIndex, OnReady
  <2> QED
    BY <2>3, <2>4, <2>5, <2>6, OwesKept DEF Normal, Retry, RetrySure
<1> QED
  BY <1>1, <1>2, <1>3, <1>4 DEF Download

\* The thread ends with every archive in place, so what was short has its
\* rescan.
LEMMA ThreadEndsOn ==
    ASSUME TypeOK, RetryInv, ThreadEnds
    PROVE  RetryInv'
<1>1. ASSUME Normal PROVE InHand'
  BY <1>1 DEF RetryInv, InHand, ThreadEnds, diskVars
<1>2. ASSUME Normal, NEW x \in Wanted PROVE ~Open(x)
  <2>1. x \in Ecosystems
    BY ScannerAssumption DEF Wanted
  <2> QED
    BY <1>2, <2>1 DEF RetryInv, InHand, ThreadEnds, Open
<1>3. ASSUME Normal PROVE (Retry => Retry') /\ (RetrySure => RetrySure')
  BY <1>2, <1>3 DEF Retry, RetrySure, ThreadEnds
<1> QED
  BY <1>1, <1>3, OwesKept DEF ThreadEnds, Normal

\* The steps of a scan that only read.
LEMMA ScanReadsOn ==
    ASSUME OneProject, TypeOK, RetryInv, NEW s \in Scans,
           \/ ChecksReady(s) \/ Refreshes(s) \/ ChecksPartial(s) \/ LooksUpIndex(s)
           \/ (\E e \in Ecosystems : LoadsArchive(s, e)) \/ StoresIndex(s)
    PROVE  RetryInv'
<1> DEFINE st == scan[s]
<1>1. /\ st \in ScanState /\ Placed(st)
      /\ s = latest /\ Normal => Owes(st, report)
  BY DEF TypeOK, RetryInv, ScansPlaced
<1>2. UNCHANGED <<archive, landing, before, running, config, stopped, failures, rescan,
                  latest, warming>>
  BY DEF ChecksReady, Refreshes, ChecksPartial, LooksUpIndex, LoadsArchive, StoresIndex,
         diskVars, threadVars
<1>3. (Retry <=> Retry') /\ (RetrySure <=> RetrySure')
  BY <1>2 DEF Retry, RetrySure, Open
<1>4. CASE ChecksReady(s)
  <2>1. CASE st.wants = {}
    BY <1>2, <1>4, <2>1, EndsOn DEF ChecksReady, Short
  <2>2. CASE st.wants # {} /\ \A e \in st.wants : archive[e] # Absent
    <3> DEFINE to == [st EXCEPT !.step = "refresh", !.need = st.wants, !.kind = "archive"]
    <3>1. Placed(to) /\ Owes(to, report')
      BY <1>1, <1>4, <2>2 DEF ScanState, Placed, Owes, Short, ChecksReady, At
    <3>2. Goes(s, to) /\ UNCHANGED report
      BY <1>4, <2>2 DEF ChecksReady
    <3> QED
      BY <1>2, <3>1, <3>2, GoesOn
  <2>3. CASE st.wants # {} /\ ~\A e \in st.wants : archive[e] # Absent
    <3> DEFINE to == [st EXCEPT !.step = "partial"]
    <3>1. st.wants = Wanted
      BY <1>1, <1>4, <2>3, WantsAll DEF Placed, ChecksReady, At
    <3>2. Retry
      BY <2>3, <3>1 DEF Retry, Open
    <3>3. Placed(to) /\ Owes(to, report')
      BY <1>1, <1>3, <1>4, <2>3, <3>2 DEF ScanState, Placed, Owes, Short, ChecksReady, At
    <3>4. Goes(s, to) /\ UNCHANGED report
      BY <1>4, <2>3 DEF ChecksReady
    <3> QED
      BY <1>2, <3>3, <3>4, GoesOn
  <2> QED
    BY <2>1, <2>2, <2>3
<1>5. CASE Refreshes(s)
  <2> DEFINE asks == [st EXCEPT !.step = "warm", !.next = "index"]
             goes == [st EXCEPT !.step = "index"]
  <2>1. Placed(asks) /\ (s = latest /\ Normal => Owes(asks, report'))
    BY <1>1, <1>5 DEF ScanState, Placed, Owes, Refreshes, At
  <2>2. Placed(goes) /\ (s = latest /\ Normal => Owes(goes, report'))
    BY <1>1, <1>5 DEF ScanState, Placed, Owes, Refreshes, At
  <2>3. UNCHANGED report /\ (Goes(s, asks) \/ Goes(s, goes))
    BY <1>5 DEF Refreshes
  <2> QED
    BY <1>2, <2>1, <2>2, <2>3, GoesOn
<1>6. CASE ChecksPartial(s)
  <2> DEFINE here == {e \in st.wants : archive[e] # Absent}
             some == [st EXCEPT !.step = "index", !.need = here, !.kind = "partial"]
             none == [st EXCEPT !.step = "config"]
  <2>1. Placed(some) /\ (s = latest /\ Normal => Owes(some, report'))
    <3> HIDE DEF here
    <3> QED
      BY <1>1, <1>6 DEF ScanState, Placed, Owes, ChecksPartial, At
  <2>2. Placed(none) /\ (s = latest /\ Normal => Owes(none, report'))
    BY <1>1, <1>6 DEF ScanState, Placed, Owes, ChecksPartial, At
  <2>3. UNCHANGED report /\ (Goes(s, some) \/ Goes(s, none))
    BY <1>6 DEF ChecksPartial
  <2> QED
    BY <1>2, <2>1, <2>2, <2>3, GoesOn
<1>7. CASE LooksUpIndex(s)
  <2> DEFINE found  == [st EXCEPT !.step = "matched", !.got = index]
             loaded == [st EXCEPT !.step = "load"]
  <2>1. Placed(found) /\ (s = latest /\ Normal => Owes(found, report'))
    BY <1>1, <1>7 DEF ScanState, Placed, Owes, LooksUpIndex, At
  <2>2. Placed(loaded) /\ (s = latest /\ Normal => Owes(loaded, report'))
    BY <1>1, <1>7 DEF ScanState, Placed, Owes, LooksUpIndex, At
  <2>3. UNCHANGED report /\ (Goes(s, found) \/ Goes(s, loaded))
    BY <1>7 DEF LooksUpIndex
  <2> QED
    BY <1>2, <2>1, <2>2, <2>3, GoesOn
<1>8. ASSUME NEW e \in Ecosystems, LoadsArchive(s, e) PROVE RetryInv'
  <2> DEFINE to == [st EXCEPT !.got[e] = archive[e]]
  <2>1. Placed(to) /\ (s = latest /\ Normal => Owes(to, report'))
    BY <1>1, <1>3, <1>8 DEF ScanState, Placed, Owes, LoadsArchive, At
  <2> QED
    BY <1>2, <1>8, <2>1, GoesOn DEF LoadsArchive
<1>9. CASE StoresIndex(s)
  <2> DEFINE to == [st EXCEPT !.step = "matched"]
  <2>1. Placed(to) /\ (s = latest /\ Normal => Owes(to, report'))
    BY <1>1, <1>3, <1>9 DEF ScanState, Placed, Owes, StoresIndex, At
  <2> QED
    BY <1>2, <1>9, <2>1, GoesOn DEF StoresIndex
<1> QED
  BY <1>4, <1>5, <1>6, <1>7, <1>8, <1>9

\* With a scan that failed, nothing is promised.
LEMMA FailsOn ==
    ASSUME TypeOK, RetryInv, NEW s \in Scans, ScanFails(s)
    PROVE  RetryInv'
<1>1. ScansPlaced'
  <2>1. Placed(Idle)
    BY DEF Placed, Idle
  <2> QED
    BY <2>1 DEF TypeOK, RetryInv, ScansPlaced, ScanFails, Ends, Goes, Placed
<1>2. ~Normal'
  <2>1. failures \in 0..MaxFailures /\ failures' = failures + 1
    BY DEF TypeOK, ScanFails
  <2> QED
    BY <2>1, ScannerAssumption DEF Normal
<1> QED
  BY <1>1, <1>2 DEF RetryInv

\* The steps that report or ask for a download.
LEMMA ScanAsksOn ==
    ASSUME OneProject, TypeOK, WarmingIsOwned, RetryInv, NEW s \in Scans,
           \/ Matches(s) \/ Decides(s) \/ ChecksStopped(s) \/ ClaimsWarm(s) \/ Finishes(s)
    PROVE  RetryInv'
<1> DEFINE st == scan[s]
<1>1. /\ st \in ScanState /\ Placed(st)
      /\ s = latest /\ Normal => Owes(st, report)
  BY DEF TypeOK, RetryInv, ScansPlaced
<1>2. UNCHANGED <<archive, landing, before, running, config, stopped, failures, rescan,
                  latest>>
  BY DEF Matches, Decides, ChecksStopped, ClaimsWarm, Finishes, diskVars, threadVars
<1>3. CASE Matches(s)
  <2>1. UNCHANGED warming /\ (Retry => Retry')
    BY <1>2, <1>3 DEF Matches, Retry, Open
  <2>2. CASE st.kind = "partial"
    <3> DEFINE to == [st EXCEPT !.step = "warm", !.next = "done"]
    <3>1. Placed(to) /\ (s = latest /\ Normal => Owes(to, report'))
      BY <1>1, <1>3, <2>1, <2>2 DEF ScanState, Placed, Owes, Matches, At
    <3> QED
      BY <1>2, <1>3, <2>1, <2>2, <3>1, GoesOn DEF Matches
  <2>3. CASE st.kind # "partial"
    <3>1. Result(s).kind \notin Short
      BY <1>1, <1>3, <2>3 DEF Placed, Matches, At, Result, Short
    <3> QED
      BY <1>2, <1>3, <2>1, <2>3, <3>1, EndsOn DEF Matches
  <2> QED
    BY <2>2, <2>3
<1>4. CASE Decides(s)
  <2>1. UNCHANGED warming /\ (Retry => Retry')
    BY <1>2, <1>4 DEF Decides, Retry, Open
  <2>2. ASSUME NEW k \in {"api", "refused"}, k = "refused" => config.offline,
               Ends(s, [kind |-> k, wants |-> st.wants, checked |-> NoIndex])
        PROVE  RetryInv'
    BY <1>2, <2>1, <2>2, EndsOn DEF Short
  <2>3. CASE /\ Goes(s, [st EXCEPT !.step = "warm", !.next = "done", !.kind = "refused"])
             /\ UNCHANGED report
    <3> DEFINE to == [st EXCEPT !.step = "warm", !.next = "done", !.kind = "refused"]
    <3>1. Placed(to) /\ (s = latest /\ Normal => Owes(to, report'))
      BY <1>1, <1>4, <2>1 DEF ScanState, Placed, Owes, Decides, At
    <3> QED
      BY <1>2, <2>1, <2>3, <3>1, GoesOn
  <2> QED
    BY <1>4, <2>2, <2>3 DEF Decides
<1>5. CASE ChecksStopped(s)
  <2> DEFINE to == [st EXCEPT !.step = IF stopped THEN st.next ELSE "claim"]
  <2>1. UNCHANGED <<warming, report>> /\ (Retry => Retry')
    BY <1>2, <1>5 DEF ChecksStopped, Retry, Open
  <2>2. Placed(to)
    BY <1>1, <1>5 DEF ScanState, Placed, ChecksStopped, At
  <2>3. s = latest /\ Normal => Owes(to, report')
    BY <1>1, <1>5, <2>1 DEF ScanState, Owes, ChecksStopped, At, Normal
  <2> QED
    BY <1>2, <1>5, <2>1, <2>2, <2>3, GoesOn DEF ChecksStopped
<1>6. CASE ClaimsWarm(s)
  <2> DEFINE to == [st EXCEPT !.step = IF warming THEN st.next ELSE "capture"]
  <2>1. warming' /\ UNCHANGED report /\ (Retry /\ warming => RetrySure)
    BY <1>6 DEF ClaimsWarm, Retry, RetrySure
  <2>2. Placed(to)
    BY <1>1, <1>6 DEF ScanState, Placed, ClaimsWarm, At
  <2>3. s = latest /\ Normal => Owes(to, report')
    BY <1>1, <1>6, <2>1 DEF ScanState, Placed, Owes, ClaimsWarm, At
  <2> QED
    BY <1>2, <1>6, <2>1, <2>2, <2>3, GoesOn DEF ClaimsWarm
<1>7. CASE Finishes(s)
  <2>1. UNCHANGED warming
    BY <1>7 DEF Finishes
  <2>2. s = latest /\ Normal => (Result(s).kind \in Short => RetrySure)
    BY <1>1, <1>7 DEF Owes, Finishes, At, Result
  <2> QED
    BY <1>2, <1>7, <2>1, <2>2, EndsOn DEF Finishes
<1> QED
  BY <1>3, <1>4, <1>5, <1>6, <1>7

\* The capture is for everything any scan wants, and before any of it lands.
LEMMA CaptureOn ==
    ASSUME OneProject, TypeOK, WarmingIsOwned, Stopping, RetryInv, NEW s \in Scans,
           CapturesBefore(s)
    PROVE  RetryInv'
<1> DEFINE st == scan[s]
           to == [st EXCEPT !.step = st.next]
<1>1. /\ st \in ScanState /\ Placed(st) /\ st.step = "capture"
      /\ s = latest /\ Normal => Owes(st, report)
  BY DEF TypeOK, RetryInv, ScansPlaced, CapturesBefore, At
<1>2. ~running /\ warming /\ \A e \in Ecosystems : landing[e] = "none"
  BY <1>1 DEF TypeOK, WarmingIsOwned, Stopping, At
<1>3. st.wants = Wanted /\ Wanted \subseteq Ecosystems
  BY <1>1, WantsAll, ScannerAssumption DEF Placed
<1>4. /\ UNCHANGED <<archive, rescan, warming, latest, report, config, stopped, failures>>
      /\ Goes(s, to)
      /\ \A e \in Ecosystems :
           /\ before'[e] = IF e \in Wanted THEN archive[e] ELSE Absent
           /\ landing'[e] = IF e \in Wanted THEN "ensuring" ELSE landing[e]
  BY <1>3 DEF CapturesBefore, diskVars
<1>5. InHand'
  BY <1>2, <1>3, <1>4 DEF InHand
<1>6. (Retry => Retry') /\ (RetrySure => RetrySure')
  BY <1>2, <1>3, <1>4 DEF Retry, RetrySure, Open
<1>7. ScansPlaced'
  <2>1. Placed(to)
    BY <1>1 DEF ScanState, Placed
  <2> QED
    BY <1>4, <2>1 DEF TypeOK, RetryInv, ScansPlaced, Goes, Placed
<1>8. ASSUME Normal PROVE Owes(scan[latest], report)'
  <2>1. CASE s = latest
    <3>1. scan'[latest'] = to
      BY <1>4, <2>1 DEF TypeOK, Goes
    <3>2. Retry => RetrySure
      BY <1>2 DEF Retry, RetrySure
    <3> QED
      BY <1>1, <1>6, <1>8, <2>1, <3>1, <3>2 DEF ScanState, Placed, Owes
  <2>2. CASE s # latest
    <3>1. scan'[latest'] = scan[latest]
      BY <1>4, <2>2 DEF TypeOK, Goes
    <3> QED
      BY <1>4, <1>6, <1>8, <3>1 DEF RetryInv, Owes
  <2> QED
    BY <2>1, <2>2
<1> QED
  BY <1>4, <1>5, <1>7, <1>8 DEF RetryInv, Normal

\* A new scan owes nothing until it has looked at the disk.
LEMMA BeginOn ==
    ASSUME TypeOK, RetryInv, NEW s \in Scans, NEW wants \in Projects, Begin(s, wants)
    PROVE  RetryInv'
<1> DEFINE to == [Idle EXCEPT !.step = "ready", !.wants = wants, !.floor = promised]
<1>1. /\ Goes(s, to) /\ latest' = s
      /\ UNCHANGED <<archive, landing, before, running, stopped, failures>>
  BY DEF Begin, diskVars, threadVars
<1>2. Placed(to) /\ to.step = "ready" /\ to.kind = "none"
  BY DEF Placed, Idle
<1>3. ScansPlaced' /\ scan'[latest'] = to
  BY <1>1, <1>2 DEF TypeOK, RetryInv, ScansPlaced, Goes, Placed
<1>4. Normal => InHand'
  BY <1>1 DEF RetryInv, InHand
<1> QED
  BY <1>1, <1>2, <1>3, <1>4 DEF RetryInv, Normal, Owes, Short

\* Without other servers, and in a project whose ecosystems stay the same, a
\* scan that was refused or fell short is retried: it is not the last one
\* unless a download failed, none may start, or the server is stopping.
THEOREM RefusedIsRetriedHolds == ~Peers /\ OneProject => (Spec => []RefusedIsRetried)
<1> SUFFICES ASSUME ~Peers, OneProject PROVE Spec => []RefusedIsRetried
  OBVIOUS
<1>1. ASSUME Init PROVE RetryInv /\ Stopping
  BY <1>1 DEF Init, RetryInv, ScansPlaced, Placed, Idle, Normal, InHand, Owes, Short, Stopping
<1>2. ASSUME TypeOK, WarmingIsOwned, Stopping, RetryInv, [Next]_vars PROVE RetryInv'
  <2>1. ASSUME UNCHANGED <<archive, landing, before, running, warming, scan, latest, report>>,
               stopped => stopped', UNCHANGED failures, rescan => rescan',
               config.offline => config'.offline \/ rescan'
        PROVE  RetryInv'
    <3>1. Normal' => Normal
      BY <2>1 DEF Normal
    <3>2. Normal => InHand'
      BY <1>2, <2>1 DEF RetryInv, InHand
    <3>3. (Retry => Retry') /\ (RetrySure => RetrySure')
      BY <2>1 DEF Retry, RetrySure, Open
    <3> QED
      BY <1>2, <2>1, <3>1, <3>2, <3>3, OwesKept
  <2>2. ASSUME NEW e \in Ecosystems, BucketUpdates(e) PROVE RetryInv'
    BY <2>1, <2>2 DEF BucketUpdates, threadVars
  <2>3. ASSUME NEW e \in Ecosystems, PeerLands(e) PROVE RetryInv'
    BY <2>3 DEF PeerLands
  <2>4. CASE HourPasses \/ ShutdownBegins \/ ShutdownReturns
    BY <2>1, <2>4 DEF HourPasses, ShutdownBegins, ShutdownReturns, diskVars, threadVars
  <2>5. ASSUME NEW c \in Configs, ConfigChanges(c) PROVE RetryInv'
    BY <2>1, <2>5 DEF ConfigChanges, diskVars, threadVars
  <2>6. CASE UNCHANGED vars
    BY <2>1, <2>6 DEF vars, diskVars, threadVars
  <2> QED
    BY <1>2, <2>2, <2>3, <2>4, <2>5, <2>6, DownloadOn, ThreadEndsOn, ScanReadsOn, ScanAsksOn,
       FailsOn, CaptureOn, BeginOn DEF Next, ScanSteps
<1>3. TypeOK /\ RetryInv => RefusedIsRetried
  <2> SUFFICES ASSUME TypeOK, RetryInv, Settled, Normal, ~config.offline
               PROVE  report.kind \notin Short
    BY DEF RefusedIsRetried, Short, Normal
  <2> QED
    BY DEF TypeOK, RetryInv, Owes, Settled, At, RetrySure
<1> QED
  BY <1>1, <1>2, <1>3, TypeCorrect, WarmingIsOwnedHolds, StoppingHolds, PTL DEF Spec
=============================================================================
