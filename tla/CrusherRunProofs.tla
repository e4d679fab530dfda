-------------------------- MODULE CrusherRunProofs --------------------------
(***************************************************************************)
(* What CrusherRun guarantees for every number of categories and tests:    *)
(* its types, that the crash guard is closed outside guarded sections,     *)
(* that the counters are those of the report, that exit code 0 is honest,  *)
(* that no broken document goes out as a good one, and that the driver's   *)
(* handles are given back.                                                 *)
(***************************************************************************)
EXTENDS CrusherRun, FiniteSetTheorems, TLAPS

\* Where main() works, and where it is being left.
Leaving == {"Disconnect", "FreeDbc", "FreeEnv", "Return"}
Working == {"Start", "AllocEnv", "SetVersion", "AllocDbc", "Connect", "Discover",
            "Discovered", "Category", "Ran", "End"}

Closed == guard.in = 0 /\ ~guard.live /\ guard.handlers = "Default"
Open   == guard = [in |-> 1, live |-> TRUE, handlers |-> "Guard", saved |-> "Default"]

\* The guard follows the program counter until an exception escapes it, and then
\* the exit code is 2 or 3.
Guarding ==
  /\ pc \in Working => Closed
  /\ pc \in Guarded => Open
  /\ pc \in Leaving /\ code \in {"0", "1"} => Closed
  /\ pc \in Leaving => code # "none"
  /\ pc \in Working \cup Guarded => code = "none"

\* A crash jumps into a finished section only after an exception left it.
Jumping == exit = "undefined" => code \in {"2", "3"}

\* A crashed category is the one whose error result is about to be reported, if
\* the process lives, or it has been reported with that result.
Crashes ==
  /\ crashed \subseteq 0..next
  /\ next \in crashed => pc \in {"Ran", "Exited", "Hung"} /\ results = CrashResult
  /\ \A i \in crashed \ {0} : i \in DOMAIN categories => categories[i] = CrashResult

\* The exit code is computed from the final totals, after the last category, and
\* no category is reported once the summary is given.
Ending ==
  /\ pc \in {"Running", "Ran"} => next <= Categories
  /\ pc \notin Leaving \cup {"End", "Exited", "Hung"} => summary = << >>
  /\ pc = "End" => next = Categories + 1 /\ summary = <<totals>>
  /\ pc \in Leaving \cup {"Exited"} /\ code \in {"0", "1"} =>
       next = Categories + 1 /\ summary = <<totals>> /\ code = ExitCode(totals)
  /\ pc \notin Leaving \cup {"Exited", "Hung"} => code = "none"
  /\ pc # "Exited" => exit = "running"
  /\ exit \in {"0", "1"} => exit = code

\* TypeOK in two halves: what the report holds, and everything else.
ReportTyped ==
  /\ totals \in [{"total", "passed", "failed", "skipped", "errors"} -> Nat]
  /\ categories \in Seq([Status -> Nat]) /\ Len(categories) = next - 1
  /\ summary \in {<< >>, <<totals>>}

FlowTyped ==
  /\ args \in CommandLine
  /\ pc \in ProgramPoint
  /\ next \in 1..Categories + 1
  /\ guard \in GuardState
  /\ results \in [Status -> Nat]
  /\ crashed \subseteq Section /\ leaked \subseteq crashed
  /\ unstable \in BOOLEAN
  /\ stream \in {"good", "bad"}
  /\ file \in {"Absent", "Whole", "Short", "Partial", "Refused"}
  /\ held \subseteq {"env", "dbc"}
  /\ connected \in BOOLEAN
  /\ code \in {"none", "0", "1", "2", "3"}
  /\ exit \in {"running", "0", "1", "2", "3", "killed", "undefined"}

\* The report holds finitely many results.
Countable == \A s \in Status : IsFiniteSet(Reported(s))

Inductive == TypeOK /\ Guarding /\ Jumping /\ Countable /\ CountersAgree /\ Crashes /\ Ending

-----------------------------------------------------------------------------
(* Results and counters                                                    *)

\* A category has a natural number of results, of each status and in all.
LEMMA ResultsAreCounts ==
  /\ \A r \in Results : r \in [Status -> Nat]
  /\ CrashResult \in [Status -> Nat] /\ NoResults \in [Status -> Nat]
<1>1. 0..MaxTests \subseteq Nat /\ 0 \in Nat /\ 1 \in Nat
  BY BoundsAssumption
<1>2. Results \subseteq [Status -> 0..MaxTests]
  BY DEF Results
<1>3. \A r \in [Status -> 0..MaxTests] : r \in [Status -> Nat]
  BY <1>1
<1>4. NoResults \in [Status -> Nat]
  BY <1>1 DEF NoResults
<1>5. CrashResult \in [Status -> Nat]
  BY <1>1, <1>4 DEF CrashResult
<1> QED BY <1>2, <1>3, <1>4, <1>5

\* Tally keeps the counters natural numbers.
LEMMA TallyCounts ==
  ASSUME NEW t \in [{"total", "passed", "failed", "skipped", "errors"} -> Nat],
         NEW r \in [Status -> Nat]
  PROVE  Tally(t, r) \in [{"total", "passed", "failed", "skipped", "errors"} -> Nat]
<1>1. /\ t.total \in Nat /\ t.passed \in Nat /\ t.failed \in Nat
      /\ t.skipped \in Nat /\ t.errors \in Nat
  OBVIOUS
<1>2. \A s \in Status : r[s] \in Nat
  OBVIOUS
<1>3. /\ r["PASS"] \in Nat /\ r["FAIL"] \in Nat /\ r["SKIP"] \in Nat /\ r["ERR"] \in Nat
      /\ r["SKIP_UNSUPPORTED"] \in Nat /\ r["SKIP_INCONCLUSIVE"] \in Nat
  BY <1>2 DEF Status
<1> QED BY <1>1, <1>3 DEF Tally, Size

\* What Append does to the sequence of reported categories.
LEMMA AppendedCategory ==
  ASSUME NEW S, NEW s \in Seq(S), NEW e \in S
  PROVE  /\ Append(s, e) \in Seq(S)
         /\ Len(Append(s, e)) = Len(s) + 1
         /\ DOMAIN Append(s, e) = DOMAIN s \cup {Len(s) + 1}
         /\ Len(s) + 1 \notin DOMAIN s
         /\ \A i \in DOMAIN s : Append(s, e)[i] = s[i]
         /\ Append(s, e)[Len(s) + 1] = e
OBVIOUS

\* A category that is reported adds its results of a status to the report.
LEMMA OneMoreCategory ==
  ASSUME NEW s, NEW r, IsFiniteSet(Reported(s)), r[s] \in Nat,
         categories \in Seq([Status -> Nat]), r \in [Status -> Nat],
         categories' = Append(categories, r)
  PROVE  IsFiniteSet(Reported(s)') /\ Number(s)' = Number(s) + r[s]
<1> DEFINE k == Len(categories) + 1
           more == {k} \X (1..r[s])
<1>1. /\ DOMAIN categories' = DOMAIN categories \cup {k} /\ k \notin DOMAIN categories
      /\ \A i \in DOMAIN categories : categories'[i] = categories[i]
      /\ categories'[k] = r
  BY AppendedCategory
<1>2. Reported(s)' = Reported(s) \cup more
  BY <1>1 DEF Reported
<1>3. Reported(s) \cap more = {}
  BY <1>1 DEF Reported
<1>4. IsFiniteSet(more) /\ Cardinality(more) = r[s]
  <2>1. IsFiniteSet(1..r[s]) /\ Cardinality(1..r[s]) = r[s]
    <3>1. 1 \in Int /\ r[s] \in Int
      OBVIOUS
    <3>2. IsFiniteSet(1..r[s]) /\ Cardinality(1..r[s]) = IF 1 > r[s] THEN 0 ELSE r[s] - 1 + 1
      BY <3>1, FS_Interval
    <3> QED BY <3>2
  <2>2. IsFiniteSet({k}) /\ Cardinality({k}) = 1
    BY FS_Singleton, Zenon
  <2>3. /\ IsFiniteSet({k} \X (1..r[s]))
        /\ Cardinality({k} \X (1..r[s])) = Cardinality({k}) * Cardinality(1..r[s])
    BY <2>1, <2>2, FS_Product
  <2> QED BY <2>1, <2>2, <2>3
<1>5. Cardinality(Reported(s) \cap more) = 0
  BY <1>3, FS_EmptySet
<1> HIDE DEF more
<1>6. /\ IsFiniteSet(Reported(s) \cup more)
      /\ Cardinality(Reported(s) \cup more) = Cardinality(Reported(s)) + r[s] - 0
  BY <1>4, <1>5, FS_Union
<1>7. Cardinality(Reported(s)) \in Nat
  BY FS_CardinalityType
<1>8. Cardinality(Reported(s)') = Cardinality(Reported(s)) + r[s]
  BY <1>2, <1>6, <1>7
<1> QED BY <1>2, <1>6, <1>8 DEF Number

\* A status without results in the report has none in any category.
LEMMA NoneReported ==
  ASSUME NEW s \in Status, IsFiniteSet(Reported(s)), Number(s) = 0,
         categories \in Seq([Status -> Nat])
  PROVE  \A i \in DOMAIN categories : categories[i][s] = 0
<1>1. Reported(s) = {}
  BY FS_EmptySet DEF Number
<1> SUFFICES ASSUME NEW i \in DOMAIN categories, categories[i][s] # 0 PROVE FALSE
  OBVIOUS
<1>2. categories[i][s] \in Nat
  OBVIOUS
<1>3. <<i, 1>> \in {i} \X (1..categories[i][s])
  BY <1>2
<1> QED BY <1>1, <1>3 DEF Reported

-----------------------------------------------------------------------------
(* The parts of the invariant, action by action                            *)

LEMMA TypeHalves == TypeOK <=> ReportTyped /\ FlowTyped
BY DEF TypeOK, ReportTyped, FlowTyped

LEMMA StreamTyped ==
  ASSUME NEW items, NEW how, stream \in {"good", "bad"},
         Flush(items) \/ Write(items) \/ Die(how) \/ UNCHANGED stdout
  PROVE  stream' \in {"good", "bad"}
BY DEF Flush, Write, Die, stdout

LEMMA FlowStep ==
  ASSUME FlowTyped, Guarding, Ending, Next \/ UNCHANGED vars
  PROVE  FlowTyped'
<1> USE BoundsAssumption, ResultsAreCounts, StreamTyped DEF FlowTyped, report, output, odbc
<1>1. CASE ReportStart
  BY <1>1 DEF ReportStart, ProgramPoint, Calling, Guarded
<1>2. CASE AllocEnv
  BY <1>2 DEF AllocEnv, Construct, Unwind, ProgramPoint, Calling, Guarded
<1>3. CASE SetVersion
  BY <1>3 DEF SetVersion, Construct, Unwind, ProgramPoint, Calling, Guarded
<1>4. CASE AllocDbc
  BY <1>4 DEF AllocDbc, Construct, Unwind, ProgramPoint, Calling, Guarded
<1>5. CASE Connect
  BY <1>5 DEF Connect, Unwind, ProgramPoint, Calling, Guarded
<1>6. CASE Discover
  BY <1>6 DEF Discover, GuardState, EnterGuard, ProgramPoint, Calling, Guarded
<1>7. CASE DiscoveryReturns
  BY <1>7 DEF DiscoveryReturns, GuardState, LeaveGuard, ProgramPoint, Calling, Guarded
<1>8. CASE DiscoveryThrows
  BY <1>8 DEF DiscoveryThrows, GuardState, Unwind, EscapeGuard, ProgramPoint, Calling, Guarded
<1>9. CASE ReportDiscovery
  BY <1>9 DEF ReportDiscovery, ProgramPoint, Calling, Guarded
<1>10. CASE RunCategory
  BY <1>10 DEF RunCategory, GuardState, EnterGuard, ProgramPoint, Calling, Guarded
<1>11. CASE CategoryReturns
  BY <1>11 DEF CategoryReturns, GuardState, LeaveGuard, ProgramPoint, Calling, Guarded
<1>12. CASE CategoryThrows
  BY <1>12 DEF CategoryThrows, GuardState, Unwind, EscapeGuard, ProgramPoint, Calling, Guarded
<1>13. CASE CrashCaught
  <2>1. CrashedSection \in Section
    BY <1>13 DEF CrashCaught, CrashedSection, Section, Guarded, Ending
  <2>2. crashed' \subseteq Section /\ leaked' \subseteq crashed'
    BY <1>13, <2>1 DEF CrashCaught
  <2>3. guard' \in GuardState
    BY <1>13 DEF CrashCaught, LeaveGuard, GuardState
  <2>4. pc' \in ProgramPoint /\ results' \in [Status -> Nat]
    BY <1>13 DEF CrashCaught, ProgramPoint, Guarded
  <2> QED BY <1>13, <2>2, <2>3, <2>4 DEF CrashCaught
<1>14. CASE CrashFatal
  BY <1>14 DEF CrashFatal, Die, Signal, ProgramPoint, Calling, Guarded
<1>15. CASE ReportCategory
  BY <1>15 DEF Ending, ReportCategory, ProgramPoint, Calling, Guarded
<1>16. CASE ReportSummary
  BY <1>16 DEF ReportSummary, ProgramPoint, Calling, Guarded
<1>17. CASE ReportEnd
  BY <1>17 DEF ReportEnd, DocumentTo, Unwind, ExitCode, ProgramPoint, Calling, Guarded
<1>18. CASE Disconnect
  BY <1>18 DEF Disconnect, ProgramPoint, Calling, Guarded
<1>19. CASE FreeDbc
  BY <1>19 DEF FreeDbc, ProgramPoint, Calling, Guarded
<1>20. CASE FreeEnv
  BY <1>20 DEF FreeEnv, ProgramPoint, Calling, Guarded
<1>21. CASE Return
  BY <1>21 DEF Guarding, Leaving, Return, ProgramPoint, Calling, Guarded
<1>22. CASE UNCHANGED vars
  BY <1>22 DEF vars, report, output, odbc
<1>23. CASE GoesDown
  <2>1. pc' \in {"Exited", "Hung"} /\ exit' \in {"killed", exit}
    BY <1>23 DEF GoesDown, Die
  <2>2. stream' \in {"good", "bad"}
    BY <1>23 DEF GoesDown
  <2> QED BY <1>23, <2>1, <2>2 DEF GoesDown, ProgramPoint
<1> QED BY <1>1, <1>2, <1>3, <1>4, <1>5, <1>6, <1>7, <1>8, <1>9, <1>10, <1>11, <1>12,
           <1>13, <1>14, <1>15, <1>16, <1>17, <1>18, <1>19, <1>20, <1>21, <1>22, <1>23 DEF Next

LEMMA ReportStep ==
  ASSUME ReportTyped, FlowTyped, Ending, Next \/ UNCHANGED vars
  PROVE  ReportTyped'
<1> USE DEF ReportTyped, report
<1>1. CASE ReportStart
  BY <1>1 DEF ReportStart
<1>2. CASE AllocEnv
  BY <1>2 DEF AllocEnv, Construct, Unwind
<1>3. CASE SetVersion
  BY <1>3 DEF SetVersion, Construct, Unwind
<1>4. CASE AllocDbc
  BY <1>4 DEF AllocDbc, Construct, Unwind
<1>5. CASE Connect
  BY <1>5 DEF Connect, Unwind
<1>6. CASE Discover
  BY <1>6 DEF Discover
<1>7. CASE DiscoveryReturns
  BY <1>7 DEF DiscoveryReturns
<1>8. CASE DiscoveryThrows
  BY <1>8 DEF DiscoveryThrows, Unwind
<1>9. CASE ReportDiscovery
  BY <1>9 DEF ReportDiscovery
<1>10. CASE RunCategory
  BY <1>10 DEF RunCategory
<1>11. CASE CategoryReturns
  BY <1>11 DEF CategoryReturns
<1>12. CASE CategoryThrows
  BY <1>12 DEF CategoryThrows, Unwind
<1>13. CASE CrashCaught
  BY <1>13 DEF CrashCaught
<1>14. CASE CrashFatal
  BY <1>14 DEF CrashFatal, Die
<1>15. CASE ReportCategory
  BY <1>15, TallyCounts, AppendedCategory, BoundsAssumption
  DEF ReportCategory, Collect, FlowTyped, Ending, Leaving
<1>16. CASE ReportSummary
  BY <1>16 DEF ReportSummary
<1>17. CASE ReportEnd
  BY <1>17 DEF ReportEnd, DocumentTo, Unwind
<1>18. CASE Disconnect
  BY <1>18 DEF Disconnect
<1>19. CASE FreeDbc
  BY <1>19 DEF FreeDbc
<1>20. CASE FreeEnv
  BY <1>20 DEF FreeEnv
<1>21. CASE Return
  BY <1>21 DEF Return
<1>22. CASE UNCHANGED vars
  BY <1>22 DEF vars, report, output, odbc
<1>23. CASE GoesDown
  BY <1>23 DEF GoesDown, Die
<1> QED BY <1>1, <1>2, <1>3, <1>4, <1>5, <1>6, <1>7, <1>8, <1>9, <1>10, <1>11, <1>12,
           <1>13, <1>14, <1>15, <1>16, <1>17, <1>18, <1>19, <1>20, <1>21, <1>22, <1>23 DEF Next

LEMMA TypeStep ==
  ASSUME TypeOK, Guarding, Ending, Next \/ UNCHANGED vars
  PROVE  TypeOK'
<1>1. FlowTyped /\ ReportTyped
  BY TypeHalves
<1>2. FlowTyped' /\ ReportTyped'
  BY <1>1, FlowStep, ReportStep
<1> QED BY <1>2 DEF TypeOK, FlowTyped, ReportTyped

LEMMA GuardStep ==
  ASSUME TypeOK, Guarding, Next \/ UNCHANGED vars
  PROVE  Guarding'
<1> USE DEF TypeOK, GuardState, Guarding, Closed, Open, Working, Leaving, Guarded
<1>1. CASE ReportStart
  BY <1>1 DEF ReportStart
<1>2. CASE AllocEnv
  BY <1>2 DEF AllocEnv, Construct, Unwind
<1>3. CASE SetVersion
  BY <1>3 DEF SetVersion, Construct, Unwind
<1>4. CASE AllocDbc
  BY <1>4 DEF AllocDbc, Construct, Unwind
<1>5. CASE Connect
  BY <1>5 DEF Connect, Unwind
<1>6. CASE Discover
  BY <1>6 DEF Discover, EnterGuard
<1>7. CASE DiscoveryReturns
  BY <1>7 DEF DiscoveryReturns, LeaveGuard
<1>8. CASE DiscoveryThrows
  BY <1>8 DEF DiscoveryThrows, Unwind, EscapeGuard
<1>9. CASE ReportDiscovery
  BY <1>9 DEF ReportDiscovery
<1>10. CASE RunCategory
  BY <1>10 DEF RunCategory, EnterGuard
<1>11. CASE CategoryReturns
  BY <1>11 DEF CategoryReturns, LeaveGuard
<1>12. CASE CategoryThrows
  BY <1>12 DEF CategoryThrows, Unwind, EscapeGuard
<1>13. CASE CrashCaught
  BY <1>13 DEF CrashCaught, LeaveGuard
<1>14. CASE CrashFatal
  BY <1>14 DEF CrashFatal, Die, Signal
<1>15. CASE ReportCategory
  BY <1>15 DEF ReportCategory
<1>16. CASE ReportSummary
  BY <1>16 DEF ReportSummary
<1>17. CASE ReportEnd
  BY <1>17 DEF ReportEnd, DocumentTo, Unwind, ExitCode
<1>18. CASE Disconnect
  BY <1>18 DEF Disconnect
<1>19. CASE FreeDbc
  BY <1>19 DEF FreeDbc
<1>20. CASE FreeEnv
  BY <1>20 DEF FreeEnv
<1>21. CASE Return
  BY <1>21 DEF Return
<1>22. CASE UNCHANGED vars
  BY <1>22 DEF vars, report, output, odbc
<1>23. CASE GoesDown
  BY <1>23 DEF GoesDown, Die
<1> QED BY <1>1, <1>2, <1>3, <1>4, <1>5, <1>6, <1>7, <1>8, <1>9, <1>10, <1>11, <1>12,
           <1>13, <1>14, <1>15, <1>16, <1>17, <1>18, <1>19, <1>20, <1>21, <1>22, <1>23 DEF Next

LEMMA JumpStep ==
  ASSUME TypeOK, Guarding, Ending, Jumping, Next \/ UNCHANGED vars
  PROVE  Jumping'
<1>1. CASE pc = "Exited"
  <2>1. UNCHANGED vars
    BY <1>1 DEF Next, ReportStart, AllocEnv, SetVersion, AllocDbc, Construct, Connect,
       Discover, DiscoveryReturns, DiscoveryThrows, ReportDiscovery, RunCategory,
       CategoryReturns, CategoryThrows, CrashCaught, CrashFatal, GoesDown, ReportCategory,
       ReportSummary, ReportEnd, Disconnect, FreeDbc, FreeEnv, Return, Calling, Guarded
  <2> QED BY <2>1 DEF vars, Jumping
<1>2. CASE pc # "Exited" /\ ~CrashFatal
  <2>1. exit = "running" /\ code # "undefined"
    BY <1>2 DEF Ending, TypeOK
  <2>2. exit' \in {exit, "killed", code}
    BY <1>2 DEF Next, vars, ReportStart, AllocEnv, SetVersion, AllocDbc, Construct, Connect,
       Discover, DiscoveryReturns, DiscoveryThrows, ReportDiscovery, RunCategory,
       CategoryReturns, CategoryThrows, CrashCaught, GoesDown, Die, ReportCategory,
       ReportSummary, ReportEnd, Disconnect, FreeDbc, FreeEnv, Return
  <2> QED BY <2>1, <2>2 DEF Jumping
<1>3. CASE CrashFatal
  <2>1. PICK kind \in CrashKind : Signal(guard, kind) # "caught" /\ exit' = Signal(guard, kind)
    BY <1>3 DEF CrashFatal, Die
  <2>2. pc \in Calling /\ code' = code
    BY <1>3 DEF CrashFatal
  <2>3. CASE Signal(guard, kind) = "killed"
    BY <2>1, <2>3 DEF Jumping
  <2>4. CASE Signal(guard, kind) = "undefined"
    <3>1. ~guard.live /\ guard.handlers # "Default"
      BY <2>4 DEF Signal, TypeOK, GuardState
    <3>2. ~Closed /\ ~Open
      BY <3>1 DEF Closed, Open
    <3>3. pc \in Leaving /\ code \notin {"0", "1", "none"}
      BY <2>2, <3>2 DEF Guarding, Calling, Guarded, Working, Leaving
    <3> QED BY <2>2, <3>3 DEF TypeOK, Jumping
  <2>5. Signal(guard, kind) \in {"killed", "caught", "undefined"}
    BY DEF Signal
  <2> QED BY <2>1, <2>3, <2>4, <2>5
<1> QED BY <1>1, <1>2, <1>3

LEMMA CountStep ==
  ASSUME TypeOK, Countable, CountersAgree, Next \/ UNCHANGED vars
  PROVE  Countable' /\ CountersAgree'
<1> USE DEF report
<1>1. CASE totals' = totals /\ categories' = categories
  <2>1. \A s : Reported(s)' = Reported(s)
    BY <1>1 DEF Reported
  <2>2. \A s : Number(s)' = Number(s)
    BY <2>1 DEF Number
  <2> QED BY <1>1, <2>1, <2>2 DEF Countable, CountersAgree
<1>2. CASE ReportCategory
  <2>1. /\ totals' = Tally(totals, results)
        /\ categories' = Append(categories, results)
    BY <1>2 DEF ReportCategory, Collect
  <2>2. /\ totals \in [{"total", "passed", "failed", "skipped", "errors"} -> Nat]
        /\ categories \in Seq([Status -> Nat]) /\ results \in [Status -> Nat]
    BY DEF TypeOK
  <2>3. \A s \in Status : results[s] \in Nat
    BY <2>2
  <2>4. \A s \in Status : IsFiniteSet(Reported(s)') /\ Number(s)' = Number(s) + results[s]
    BY <2>1, <2>2, <2>3, OneMoreCategory DEF Countable
  <2>5. \A s \in Status : Number(s) \in Nat
    BY FS_CardinalityType DEF Countable, Number
  <2>6. /\ "PASS" \in Status /\ "FAIL" \in Status /\ "SKIP" \in Status /\ "ERR" \in Status
        /\ "SKIP_UNSUPPORTED" \in Status /\ "SKIP_INCONCLUSIVE" \in Status
    BY DEF Status
  <2>7. CountersAgree'
    <3>1. /\ totals'.passed  = totals.passed + results["PASS"]
          /\ totals'.failed  = totals.failed + results["FAIL"]
          /\ totals'.skipped = totals.skipped + results["SKIP"] + results["SKIP_UNSUPPORTED"]
                                + results["SKIP_INCONCLUSIVE"]
          /\ totals'.errors  = totals.errors + results["ERR"]
          /\ totals'.total   = totals.total + Size(results)
      BY <2>1 DEF Tally
    <3>2. /\ Number("PASS")' = Number("PASS") + results["PASS"]
          /\ Number("FAIL")' = Number("FAIL") + results["FAIL"]
          /\ Number("SKIP")' = Number("SKIP") + results["SKIP"]
          /\ Number("SKIP_UNSUPPORTED")' = Number("SKIP_UNSUPPORTED") + results["SKIP_UNSUPPORTED"]
          /\ Number("SKIP_INCONCLUSIVE")' = Number("SKIP_INCONCLUSIVE") + results["SKIP_INCONCLUSIVE"]
          /\ Number("ERR")' = Number("ERR") + results["ERR"]
      BY <2>4, <2>6
    <3>3. /\ results["PASS"] \in Nat /\ results["FAIL"] \in Nat /\ results["SKIP"] \in Nat
          /\ results["SKIP_UNSUPPORTED"] \in Nat /\ results["SKIP_INCONCLUSIVE"] \in Nat
          /\ results["ERR"] \in Nat
      BY <2>3, <2>6
    <3>4. /\ Number("PASS") \in Nat /\ Number("FAIL") \in Nat /\ Number("SKIP") \in Nat
          /\ Number("SKIP_UNSUPPORTED") \in Nat /\ Number("SKIP_INCONCLUSIVE") \in Nat
          /\ Number("ERR") \in Nat
      BY <2>5, <2>6
    <3> QED BY <3>1, <3>2, <3>3, <3>4 DEF CountersAgree, Size
  <2> QED BY <2>4, <2>7 DEF Countable
<1>3. ASSUME ~ReportCategory PROVE totals' = totals /\ categories' = categories
  BY <1>3 DEF Next, vars, ReportStart, AllocEnv, SetVersion, AllocDbc, Construct, Connect,
     Discover, DiscoveryReturns, DiscoveryThrows, ReportDiscovery, RunCategory, CategoryReturns,
     CategoryThrows, CrashCaught, CrashFatal, GoesDown, ReportSummary, ReportEnd, Disconnect,
     FreeDbc, FreeEnv, Return
<1> QED BY <1>1, <1>2, <1>3

LEMMA CrashStep ==
  ASSUME TypeOK, Crashes, Next \/ UNCHANGED vars
  PROVE  Crashes'
<1> USE DEF TypeOK, Crashes, report
<1>1. CASE ReportStart
  BY <1>1 DEF ReportStart
<1>2. CASE AllocEnv
  BY <1>2 DEF AllocEnv, Construct, Unwind
<1>3. CASE SetVersion
  BY <1>3 DEF SetVersion, Construct, Unwind
<1>4. CASE AllocDbc
  BY <1>4 DEF AllocDbc, Construct, Unwind
<1>5. CASE Connect
  BY <1>5 DEF Connect, Unwind
<1>6. CASE Discover
  BY <1>6 DEF Discover
<1>7. CASE DiscoveryReturns
  BY <1>7 DEF DiscoveryReturns
<1>8. CASE DiscoveryThrows
  BY <1>8 DEF DiscoveryThrows, Unwind
<1>9. CASE ReportDiscovery
  BY <1>9 DEF ReportDiscovery
<1>10. CASE RunCategory
  BY <1>10 DEF RunCategory
<1>11. CASE CategoryReturns
  BY <1>11 DEF CategoryReturns
<1>12. CASE CategoryThrows
  BY <1>12 DEF CategoryThrows, Unwind
<1>13. CASE CrashCaught
  BY <1>13 DEF CrashCaught, CrashedSection, Guarded
<1>14. CASE CrashFatal
  BY <1>14 DEF CrashFatal, Die, Calling, Guarded
<1>15. CASE ReportCategory
  BY <1>15 DEF ReportCategory, Collect
<1>16. CASE ReportSummary
  BY <1>16 DEF ReportSummary
<1>17. CASE ReportEnd
  BY <1>17 DEF ReportEnd, DocumentTo, Unwind
<1>18. CASE Disconnect
  BY <1>18 DEF Disconnect
<1>19. CASE FreeDbc
  BY <1>19 DEF FreeDbc
<1>20. CASE FreeEnv
  BY <1>20 DEF FreeEnv
<1>21. CASE Return
  BY <1>21 DEF Return
<1>22. CASE UNCHANGED vars
  BY <1>22 DEF vars, report, output, odbc
<1>23. CASE GoesDown
  <2>1. UNCHANGED <<next, results, crashed, categories>>
    BY <1>23 DEF GoesDown
  <2>2. pc' \in {"Exited", "Hung"}
    BY <1>23 DEF GoesDown, Die
  <2> QED BY <2>1, <2>2
<1> QED BY <1>1, <1>2, <1>3, <1>4, <1>5, <1>6, <1>7, <1>8, <1>9, <1>10, <1>11, <1>12,
           <1>13, <1>14, <1>15, <1>16, <1>17, <1>18, <1>19, <1>20, <1>21, <1>22, <1>23 DEF Next

LEMMA EndStep ==
  ASSUME TypeOK, Ending, Next \/ UNCHANGED vars
  PROVE  Ending'
<1> USE DEF Ending, Leaving, report, Guarded, Calling
<1>1. CASE ReportStart
  BY <1>1 DEF ReportStart, Calling
<1>2. CASE AllocEnv
  BY <1>2 DEF AllocEnv, Construct, Unwind, Calling
<1>3. CASE SetVersion
  BY <1>3 DEF SetVersion, Construct, Unwind, Calling
<1>4. CASE AllocDbc
  BY <1>4 DEF AllocDbc, Construct, Unwind, Calling
<1>5. CASE Connect
  BY <1>5 DEF Connect, Unwind, Calling
<1>6. CASE Discover
  BY <1>6 DEF Discover, Calling
<1>7. CASE DiscoveryReturns
  BY <1>7 DEF DiscoveryReturns, Calling
<1>8. CASE DiscoveryThrows
  BY <1>8 DEF DiscoveryThrows, Unwind, Calling
<1>9. CASE ReportDiscovery
  BY <1>9 DEF ReportDiscovery, Calling
<1>10. CASE RunCategory
  BY <1>10 DEF RunCategory, Calling
<1>11. CASE CategoryReturns
  BY <1>11 DEF CategoryReturns, Calling
<1>12. CASE CategoryThrows
  BY <1>12 DEF CategoryThrows, Unwind, Calling
<1>13. CASE CrashCaught
  BY <1>13 DEF CrashCaught, Calling
<1>14. CASE CrashFatal
  BY <1>14 DEF CrashFatal, Die, Signal, Calling, Calling
<1>15. CASE ReportCategory
  BY <1>15 DEF ReportCategory, Calling
<1>16. CASE ReportSummary
  <2>1. next = Categories + 1
    BY <1>16, BoundsAssumption DEF ReportSummary, TypeOK
  <2> QED BY <1>16, <2>1 DEF ReportSummary
<1>17. CASE ReportEnd
  BY <1>17 DEF ReportEnd, DocumentTo, Unwind, ExitCode, Calling
<1>18. CASE Disconnect
  BY <1>18 DEF Disconnect, Calling
<1>19. CASE FreeDbc
  BY <1>19 DEF FreeDbc, Calling
<1>20. CASE FreeEnv
  BY <1>20 DEF FreeEnv, Calling
<1>21. CASE Return
  BY <1>21 DEF Return, Calling
<1>22. CASE UNCHANGED vars
  BY <1>22 DEF vars, report, output, odbc
<1>23. CASE GoesDown
  BY <1>23 DEF GoesDown, Die
<1> QED BY <1>1, <1>2, <1>3, <1>4, <1>5, <1>6, <1>7, <1>8, <1>9, <1>10, <1>11, <1>12,
           <1>13, <1>14, <1>15, <1>16, <1>17, <1>18, <1>19, <1>20, <1>21, <1>22, <1>23 DEF Next

-----------------------------------------------------------------------------

THEOREM Invariance == Spec => []Inductive
<1>1. Init => Inductive
  <2> SUFFICES ASSUME Init PROVE Inductive
    OBVIOUS
  <2>1. FlowTyped
    <3>1. /\ args \in CommandLine /\ pc \in ProgramPoint /\ results \in [Status -> Nat]
          /\ next \in 1..Categories + 1
      BY BoundsAssumption, ResultsAreCounts DEF Init, ProgramPoint
    <3>2. guard \in GuardState
      BY DEF Init, GuardState
    <3> QED BY <3>1, <3>2 DEF Init, FlowTyped
  <2>2. ReportTyped
    BY DEF Init, ReportTyped, Zero
  <2>3. TypeOK
    BY <2>1, <2>2, TypeHalves
  <2>4. Guarding
    BY DEF Init, Guarding, Calling, Guarded, Working, Leaving, Closed
  <2>5. Countable /\ CountersAgree /\ Crashes
    <3>1. \A s : Reported(s) = {}
      BY DEF Init, Reported
    <3>2. \A s : Number(s) = 0
      BY <3>1, FS_EmptySet DEF Number
    <3>3. Countable
      BY <3>1, FS_EmptySet DEF Countable
    <3>4. CountersAgree
      BY <3>2 DEF Init, CountersAgree, Zero
    <3>5. Crashes
      BY DEF Init, Crashes
    <3> QED BY <3>3, <3>4, <3>5
  <2>6. Ending /\ Jumping
    BY DEF Init, Ending, Jumping, Leaving
  <2> QED BY <2>3, <2>4, <2>5, <2>6 DEF Inductive
<1>2. Inductive /\ [Next]_vars => Inductive'
  BY TypeStep, GuardStep, JumpStep, CountStep, CrashStep, EndStep DEF Inductive
<1> QED BY <1>1, <1>2, PTL DEF Spec

\* The types of every variable of the run.
THEOREM TypeCorrect == Spec => []TypeOK
<1>1. Inductive => TypeOK
  BY DEF Inductive
<1> QED BY <1>1, Invariance, PTL

\* main()'s counters are, heading by heading, the numbers of the results in the
\* report (main.cpp:42-58, 87-91).
THEOREM CountersAlwaysAgree == Spec => []CountersAgree
<1>1. Inductive => CountersAgree
  BY DEF Inductive
<1> QED BY <1>1, Invariance, PTL

\* Exit code 0 means that everything ran and nothing failed, errored or crashed.
THEOREM ExitCodeIsHonest == Spec => []ExitIsHonest
<1>1. Inductive => ExitIsHonest
  <2> SUFFICES ASSUME Inductive PROVE ExitIsHonest
    OBVIOUS
  <2>1. exit \in {"0", "1"} => /\ exit = code /\ pc = "Exited"
                               /\ next = Categories + 1 /\ summary = <<totals>>
                               /\ exit = ExitCode(totals)
    BY DEF Inductive, Ending
  <2>2. Len(categories) = next - 1 /\ next \in 1..Categories + 1
    BY DEF Inductive, TypeOK
  <2>3. exit \in {"0", "1"} => Len(categories) = Categories
    BY <2>1, <2>2, BoundsAssumption
  <2>4. totals.failed \in Nat /\ totals.errors \in Nat
    BY DEF Inductive, TypeOK
  <2>5. exit = "0" => totals.failed = 0 /\ totals.errors = 0
    BY <2>1, <2>4 DEF ExitCode
  <2>6. exit = "0" => \A i \in DOMAIN categories :
                        categories[i]["FAIL"] = 0 /\ categories[i]["ERR"] = 0
    BY <2>5, NoneReported DEF Inductive, TypeOK, Countable, CountersAgree, Status
  <2> QED BY <2>1, <2>3, <2>6 DEF Inductive, Crashes, ExitIsHonest
<1> QED BY <1>1, Invariance, PTL

\* The process has its own signal dispositions outside the guarded sections, and no
\* crash jumps into a section that is over, unless an exception has left main()
\* (crash_guard.cpp:103-110, 178-182).
THEOREM GuardAlwaysClosed == Spec => []GuardIsClosed
<1>1. Inductive => GuardIsClosed
  BY DEF Inductive, TypeOK, ProgramPoint, Calling, Guarding, Jumping, GuardIsClosed, Guarded, Working, Leaving, Closed
<1> QED BY <1>1, Invariance, PTL

-----------------------------------------------------------------------------
(* What reaches stdout and the file of -f in a JSON run                    *)

Silent     == {"Start", "AllocEnv", "SetVersion", "AllocDbc", "Connect", "Discover",
               "Discovering", "Discovered"}
Collecting == {"Category", "Running", "Ran", "End"}

\* Stdout stays empty up to the line of progress, and nothing follows that line
\* before the document; the codes 0 and 1 are set by a ReportEnd that printed it.
Printing ==
  JsonDocument =>
    /\ pc \in Silent /\ stream = "good" => pending = << >> /\ out = << >>
    /\ pc \in Collecting /\ stream = "good" => pending = << >> /\ out = <<"Progress">>
    /\ pc \in Leaving /\ code \in {"0", "1"} =>
         /\ args.file => file \in {"Whole", "Short", "Refused"}
         /\ stream = "good" => pending = << >> /\ out = JsonOutput
    /\ ReportIsDelivered

LEMMA Joined ==
  /\ << >> \o << >> = << >>
  /\ << >> \o <<"Progress">> = <<"Progress">>
  /\ <<"Progress">> \o << >> = <<"Progress">>
  /\ Append(<< >>, "Json") = <<"Json">>
  /\ Append(<< >>, "Written") = <<"Written">>
OBVIOUS

\* What a flush does to a stream that is good afterwards.
LEMMA Flushed ==
  ASSUME NEW items, Flush(items), stream' = "good"
  PROVE  stream = "good" /\ pending' = << >> /\ out' = out \o items
BY DEF Flush

\* Neither flushing an empty buffer nor writing nothing changes stdout.
LEMMA NothingPrinted ==
  ASSUME Flush(pending) \/ Write(<< >>) \/ UNCHANGED stdout,
         stream = "good" => pending = << >> /\ out \in {<< >>, <<"Progress">>, JsonOutput},
         JsonOutput \o << >> = JsonOutput, stream' = "good"
  PROVE  stream = "good" /\ pending' = pending /\ out' = out
<1>1. CASE Flush(pending)
  BY <1>1, Flushed, Joined
<1>2. CASE Write(<< >>)
  BY <1>2, Joined DEF Write
<1>3. CASE UNCHANGED stdout
  BY <1>3 DEF stdout
<1> QED BY <1>1, <1>2, <1>3

\* Nothing appended to what a JSON run prints leaves it as it is.
LEMMA OutputKept == JsonOutput \o << >> = JsonOutput
<1>1. ASSUME NEW S, NEW s \in Seq(S) PROVE s \o << >> = s
  OBVIOUS
<1>2. ASSUME NEW S, NEW s \in Seq(S), NEW t \in Seq(S) PROVE s \o t \in Seq(S)
  OBVIOUS
<1> DEFINE S == {"Progress", "Json", "Written"}
<1>3. /\ <<"Progress">> \in Seq(S) /\ << >> \in Seq(S)
      /\ <<"Json">> \in Seq(S) /\ <<"Written">> \in Seq(S)
  OBVIOUS
<1> HIDE DEF S
<1>4. JsonOutput \in Seq(S)
  BY <1>2, <1>3 DEF JsonOutput
<1> QED BY <1>1, <1>4

\* A step that prints nothing, within one of the three stretches of the run.
LEMMA QuietStep ==
  ASSUME Printing, UNCHANGED <<args, file, exit>>,
         Flush(pending) \/ Write(<< >>) \/ UNCHANGED stdout,
         \/ pc \in Silent /\ pc' \in Silent
         \/ pc \in Collecting /\ pc' \in Collecting
         \/ pc \in Leaving /\ pc' \in Leaving /\ code' = code
         \/ pc' \in Leaving /\ code' \in {"2", "3"},
         exit = "running"
  PROVE  Printing'
<1> SUFFICES ASSUME JsonDocument PROVE Printing'
  BY DEF Printing, JsonDocument
<1>1. ReportIsDelivered'
  BY DEF ReportIsDelivered
<1>2. JsonOutput' = JsonOutput /\ JsonDocument'
  BY DEF JsonOutput, JsonDocument
<1>3. CASE pc \in Silent /\ pc' \in Silent
  BY <1>1, <1>3, NothingPrinted, OutputKept DEF Printing, Silent, Collecting, Leaving
<1>4. CASE pc \in Collecting /\ pc' \in Collecting
  BY <1>1, <1>4, NothingPrinted, OutputKept DEF Printing, Silent, Collecting, Leaving
<1>5. CASE pc \in Leaving /\ pc' \in Leaving /\ code' = code
  <2>1. CASE code \in {"0", "1"}
    BY <1>1, <1>2, <1>5, <2>1, NothingPrinted, OutputKept DEF Printing, Silent, Collecting, Leaving
  <2>2. CASE code \notin {"0", "1"}
    BY <1>1, <1>5, <2>2 DEF Printing, Silent, Collecting, Leaving
  <2> QED BY <2>1, <2>2
<1>6. CASE pc' \in Leaving /\ code' \in {"2", "3"}
  BY <1>1, <1>6 DEF Printing, Silent, Collecting, Leaving
<1> QED BY <1>3, <1>4, <1>5, <1>6

\* The end of the process by a signal promises nothing.
LEMMA DeathStep ==
  ASSUME NEW how, Die(how), how \in {"killed", "undefined"}
  PROVE  Printing'
BY DEF Die, Printing, ReportIsDelivered, Silent, Collecting, Leaving

LEMMA PrintStep ==
  ASSUME TypeOK, Ending, Printing, Next \/ UNCHANGED vars
  PROVE  Printing'
<1>0. /\ pc # "Exited" => exit = "running"
      /\ pc \in Silent \cup Collecting => code = "none"
  BY DEF Ending, Silent, Collecting, Leaving
<1>b. args' = args
  BY DEF Next, vars, ReportStart, AllocEnv, SetVersion, AllocDbc, Construct, Connect,
     Discover, DiscoveryReturns, DiscoveryThrows, ReportDiscovery, RunCategory, CategoryReturns,
     CategoryThrows, CrashCaught, CrashFatal, GoesDown, ReportCategory, ReportSummary, ReportEnd,
     Disconnect, FreeDbc, FreeEnv, Return
<1> SUFFICES ASSUME JsonDocument, JsonDocument' PROVE Printing'
  BY <1>b DEF Printing, JsonDocument
<1>a. \A items : ForConsole(items) = << >>
  BY DEF ForConsole
<1> USE DEF Silent, Collecting, Leaving, output
<1>1. CASE ReportStart
  BY <1>0, <1>1, <1>a, QuietStep DEF ReportStart
<1>2. CASE AllocEnv
  BY <1>0, <1>2, QuietStep DEF AllocEnv, Construct, Unwind
<1>3. CASE SetVersion
  BY <1>0, <1>3, QuietStep DEF SetVersion, Construct, Unwind
<1>4. CASE AllocDbc
  BY <1>0, <1>4, QuietStep DEF AllocDbc, Construct, Unwind
<1>5. CASE Connect
  BY <1>0, <1>5, QuietStep DEF Connect, Unwind
<1>6. CASE Discover
  BY <1>0, <1>6, QuietStep DEF Discover
<1>7. CASE DiscoveryReturns
  BY <1>0, <1>7, QuietStep DEF DiscoveryReturns
<1>8. CASE DiscoveryThrows
  BY <1>0, <1>8, QuietStep DEF DiscoveryThrows, Unwind
<1>9. CASE ReportDiscovery
  <2> DEFINE told == IF 0 \in crashed THEN << >> ELSE ForConsole(<<"Information">>)
             items == pending \o told \o <<"Progress">>
  <2>1. told = << >>
    BY <1>a
  <2>2. pc = "Discovered" /\ pc' = "Category" /\ UNCHANGED <<exit, code>> /\ Flush(items)
    BY <1>9 DEF ReportDiscovery
  <2>3. pending = << >> => items = <<"Progress">>
    BY <2>1, Joined
  <2> HIDE DEF items
  <2>4. stream' = "good" => pending' = << >> /\ out' = <<"Progress">>
    <3> SUFFICES ASSUME stream' = "good" PROVE pending' = << >> /\ out' = <<"Progress">>
      OBVIOUS
    <3>1. stream = "good" /\ pending' = << >> /\ out' = out \o items
      BY <2>2, Flushed
    <3>2. pending = << >> /\ out = << >>
      BY <2>2, <3>1 DEF Printing
    <3> QED BY <2>3, <3>1, <3>2, Joined
  <2> QED BY <1>0, <2>2, <2>4 DEF Printing, ReportIsDelivered
<1>10. CASE RunCategory
  BY <1>0, <1>10, QuietStep DEF RunCategory
<1>11. CASE CategoryReturns
  BY <1>0, <1>11, QuietStep DEF CategoryReturns
<1>12. CASE CategoryThrows
  BY <1>0, <1>12, QuietStep DEF CategoryThrows, Unwind
<1>13. CASE CrashCaught
  BY <1>0, <1>13, QuietStep DEF CrashCaught, Guarded
<1>14. CASE CrashFatal
  <2>1. PICK kind \in CrashKind : Signal(guard, kind) # "caught" /\ Die(Signal(guard, kind))
    BY <1>14 DEF CrashFatal
  <2>2. Signal(guard, kind) \in {"killed", "undefined"}
    BY <2>1 DEF Signal
  <2> QED BY <2>1, <2>2, DeathStep
<1>15. CASE ReportCategory
  <2>1. /\ pc = "Ran" /\ pc' = "Category" /\ UNCHANGED <<args, file, exit>>
        /\ Flush(pending \o ForConsole(<<"Category">>))
    BY <1>15 DEF ReportCategory
  <2>2. Flush(pending \o << >>)
    BY <1>a, <2>1
  <2>3. stream' = "good" => pending' = << >> /\ out' = <<"Progress">>
    <3> SUFFICES ASSUME stream' = "good" PROVE pending' = << >> /\ out' = <<"Progress">>
      OBVIOUS
    <3>1. stream = "good" /\ pending' = << >> /\ out' = out \o (pending \o << >>)
      BY <2>2, Flushed
    <3>2. pending = << >> /\ out = <<"Progress">>
      BY <2>1, <3>1 DEF Printing
    <3> QED BY <3>1, <3>2, Joined
  <2> QED BY <1>0, <2>1, <2>3 DEF Printing, ReportIsDelivered
<1>16. CASE ReportSummary
  BY <1>0, <1>16, <1>a, QuietStep DEF ReportSummary
<1>17. CASE ReportEnd
  <2>1. /\ pc = "End" /\ pc' = "Disconnect" /\ UNCHANGED <<args, exit>> /\ exit = "running"
        /\ DocumentTo(ExitCode(totals), "3")
    BY <1>0, <1>17 DEF ReportEnd, DocumentTo, Unwind
  <2>2. stream = "good" => pending = << >> /\ out = <<"Progress">>
    BY <2>1 DEF Printing
  <2>3. CASE code' = "3"
    BY <2>1, <2>3 DEF Printing, ReportIsDelivered
  <2>4. CASE ~args.file /\ Flush(Append(pending, "Json"))
    <3>1. stream' = "good" => pending' = << >> /\ out' = <<"Progress">> \o <<"Json">>
      BY <2>2, <2>4, Flushed, Joined
    <3>2. JsonOutput' = <<"Progress">> \o <<"Json">>
      BY <2>1, <2>4 DEF JsonOutput
    <3> QED BY <2>1, <2>4, <3>1, <3>2 DEF Printing, ReportIsDelivered
  <2>5. CASE args.file /\ file' \in {"Whole", "Short"} /\ Flush(Append(pending, "Written"))
    <3>1. stream' = "good" => pending' = << >> /\ out' = <<"Progress">> \o <<"Written">>
      BY <2>2, <2>5, Flushed, Joined
    <3>2. JsonOutput' = <<"Progress">> \o <<"Written">>
      BY <2>1, <2>5 DEF JsonOutput
    <3> QED BY <2>1, <2>5, <3>1, <3>2 DEF Printing, ReportIsDelivered
  <2>6. CASE args.file /\ file' = "Refused" /\ UNCHANGED stdout
    <3>1. JsonOutput' = <<"Progress">> \o << >>
      BY <2>1, <2>6 DEF JsonOutput
    <3> QED BY <2>1, <2>2, <2>6, <3>1, Joined DEF Printing, ReportIsDelivered, stdout
  <2> QED BY <2>1, <2>3, <2>4, <2>5, <2>6 DEF DocumentTo, Unwind
<1>18. CASE Disconnect
  BY <1>0, <1>18, QuietStep DEF Disconnect
<1>19. CASE FreeDbc
  BY <1>0, <1>19, QuietStep DEF FreeDbc
<1>20. CASE FreeEnv
  BY <1>0, <1>20, QuietStep DEF FreeEnv
<1>21. CASE Return
  <2>1. /\ pc = "Return" /\ pc' = "Exited" /\ exit' = code /\ Flush(pending)
        /\ UNCHANGED <<args, file, code>>
    BY <1>21 DEF Return
  <2>2. JsonOutput' = JsonOutput
    BY <2>1 DEF JsonOutput
  <2>3. CASE code \in {"0", "1"}
    <3>1. args.file => file \in {"Whole", "Short", "Refused"}
      BY <2>1, <2>3 DEF Printing
    <3>2. stream' = "good" => out' = JsonOutput
      BY <2>1, <2>3, NothingPrinted, OutputKept DEF Printing
    <3> QED BY <2>1, <2>2, <3>1, <3>2 DEF Printing, ReportIsDelivered
  <2>4. CASE code \notin {"0", "1"}
    BY <2>1, <2>4 DEF Printing, ReportIsDelivered
  <2> QED BY <2>3, <2>4
<1>22. CASE UNCHANGED vars
  BY <1>22 DEF vars, stdout, Printing, ReportIsDelivered, JsonOutput
<1>23. CASE GoesDown
  <2>1. CASE Die("killed")
    BY <2>1, DeathStep
  <2>2. CASE pc' = "Hung" /\ UNCHANGED <<stdout, exit>>
    BY <1>0, <1>23, <2>2 DEF GoesDown, Printing, ReportIsDelivered
  <2> QED BY <1>23, <2>1, <2>2 DEF GoesDown
<1> QED BY <1>1, <1>2, <1>3, <1>4, <1>5, <1>6, <1>7, <1>8, <1>9, <1>10, <1>11, <1>12,
           <1>13, <1>14, <1>15, <1>16, <1>17, <1>18, <1>19, <1>20, <1>21, <1>22, <1>23 DEF Next

\* A JSON document that could not be serialised never goes out under 0 or 1.  Under
\* those codes stdout has the document, or the news of it unless the file of -f could
\* not be opened, behind the one line of main.cpp:194 and nothing else, if the system
\* took what was written
\* (json_reporter.cpp:84-98, main.cpp:270-286).
THEOREM ReportsAreDelivered == Spec => []ReportIsDelivered
<1>1. Init => Printing
  BY DEF Init, Printing, ReportIsDelivered, Silent, Collecting, Leaving
<1>2. Inductive /\ Printing /\ [Next]_vars => Printing'
  BY PrintStep DEF Inductive
<1>3. Printing => ReportIsDelivered
  BY DEF Printing, ReportIsDelivered
<1> QED BY <1>1, <1>2, <1>3, Invariance, PTL DEF Spec

-----------------------------------------------------------------------------
(* The handles of the driver                                               *)

\* No crash has jumped over an owner, and the connection is closed.
Orderly == code \in {"0", "1"} /\ crashed = {} /\ ~connected

Freeing == /\ Orderly /\ pc = "FreeEnv" => held \subseteq {"env"}
           /\ Orderly /\ pc = "Return" => held = {}
           /\ HandlesAreFreed

LEMMA FreeStep ==
  ASSUME TypeOK, Ending, Freeing, Next \/ UNCHANGED vars
  PROVE  Freeing'
<1> USE DEF TypeOK, Ending, Leaving, Freeing, Orderly, HandlesAreFreed, odbc, Guarded, Calling
<1>1. CASE ReportStart
  BY <1>1 DEF ReportStart
<1>2. CASE AllocEnv
  BY <1>2 DEF AllocEnv, Construct, Unwind
<1>3. CASE SetVersion
  BY <1>3 DEF SetVersion, Construct, Unwind
<1>4. CASE AllocDbc
  BY <1>4 DEF AllocDbc, Construct, Unwind
<1>5. CASE Connect
  BY <1>5 DEF Connect, Unwind
<1>6. CASE Discover
  BY <1>6 DEF Discover
<1>7. CASE DiscoveryReturns
  BY <1>7 DEF DiscoveryReturns
<1>8. CASE DiscoveryThrows
  BY <1>8 DEF DiscoveryThrows, Unwind
<1>9. CASE ReportDiscovery
  BY <1>9 DEF ReportDiscovery
<1>10. CASE RunCategory
  BY <1>10 DEF RunCategory
<1>11. CASE CategoryReturns
  BY <1>11 DEF CategoryReturns
<1>12. CASE CategoryThrows
  BY <1>12 DEF CategoryThrows, Unwind
<1>13. CASE CrashCaught
  BY <1>13 DEF CrashCaught
<1>14. CASE CrashFatal
  BY <1>14 DEF CrashFatal, Die, Signal
<1>15. CASE ReportCategory
  BY <1>15 DEF ReportCategory
<1>16. CASE ReportSummary
  BY <1>16 DEF ReportSummary
<1>17. CASE ReportEnd
  BY <1>17 DEF ReportEnd, DocumentTo, Unwind
<1>18. CASE Disconnect
  BY <1>18 DEF Disconnect
<1>19. CASE FreeDbc
  BY <1>19 DEF FreeDbc
<1>20. CASE FreeEnv
  BY <1>20 DEF FreeEnv
<1>21. CASE Return
  BY <1>21 DEF Return
<1>22. CASE UNCHANGED vars
  BY <1>22 DEF vars
<1>23. CASE GoesDown
  BY <1>23 DEF GoesDown, Die
<1> QED BY <1>1, <1>2, <1>3, <1>4, <1>5, <1>6, <1>7, <1>8, <1>9, <1>10, <1>11, <1>12,
           <1>13, <1>14, <1>15, <1>16, <1>17, <1>18, <1>19, <1>20, <1>21, <1>22, <1>23 DEF Next

\* A run that ends in 0 or 1 has freed every handle, unless a crash jumped over
\* the owner of one or the driver would not disconnect (odbc_connection.cpp:12).
THEOREM HandlesAreGivenBack == Spec => []HandlesAreFreed
<1>1. Init => Freeing
  BY DEF Init, Freeing, Orderly, HandlesAreFreed
<1>2. Inductive /\ Freeing /\ [Next]_vars => Freeing'
  BY FreeStep DEF Inductive
<1>3. Freeing => HandlesAreFreed
  BY DEF Freeing
<1> QED BY <1>1, <1>2, <1>3, Invariance, PTL DEF Spec

=============================================================================
