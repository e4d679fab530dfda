----------------------------- MODULE CrusherRun -----------------------------
(***************************************************************************)
(* One run of the odbc-crusher program: main() of src/main.cpp with the    *)
(* crash guard every call into the driver's test code runs under, the      *)
(* reporters that collect the results, and the wrappers whose destructors  *)
(* give the driver's handles back.                                         *)
(*                                                                         *)
(* The driver is the environment: any call into it may succeed, fail or    *)
(* crash, and so is the system, which may refuse any write of the output.  *)
(* A category of tests is what its run() comes to: a number of results of  *)
(* each status, a crash, or an exception that is no OdbcError (every suite *)
(* catches that one).  Discovery lets both kinds through.                  *)
(***************************************************************************)
EXTENDS Integers, Sequences, FiniteSets

CONSTANTS
  Categories,   \* how many test categories main() runs (23 in the source)
  MaxTests      \* bound: results of one category

ASSUME BoundsAssumption == Categories \in Nat \ {0} /\ MaxTests \in Nat \ {0}

VARIABLES
  args,         \* the command line: output format, and whether -f names a file
  pc,           \* how far main() has come
  next,         \* the category to run next
  guard,        \* the crash guard: s_in_guard, s_jmp_env's frame, dispositions
  results,      \* what the category that just ran returned
  crashed,      \* history: guarded sections that crashed (0 is discovery)
  unstable,     \* whether a crash left locks held or memory damaged
  totals,       \* the five counters of main()
  categories,   \* results the reporter has collected, one per category
  summary,      \* the summary the reporter was given, if any
  pending,      \* what was written to std::cout and not flushed
  out,          \* what stdout received, in order
  stream,       \* std::cout: once a write fails, nothing is written any more
  file,         \* what the file of -f holds
  held,         \* driver handles the process has allocated and not freed
  connected,    \* OdbcConnection::connected_
  leaked,       \* sections whose statements were jumped over by a crash
  code,         \* the exit code main() is about to return
  exit          \* how the process ended

odbc == <<held, connected, leaked>>
report == <<totals, categories, summary>>
stdout == <<pending, out, stream>>
output == <<stdout, file>>
vars == <<args, pc, next, guard, results, crashed, unstable, report, output, odbc, code, exit>>

Status == {"PASS", "FAIL", "SKIP", "SKIP_UNSUPPORTED", "SKIP_INCONCLUSIVE", "ERR"}

Size(r) == r["PASS"] + r["FAIL"] + r["SKIP"] + r["SKIP_UNSUPPORTED"]
             + r["SKIP_INCONCLUSIVE"] + r["ERR"]
Results == {r \in [Status -> 0..MaxTests] : Size(r) <= MaxTests}

NoResults   == [s \in Status |-> 0]
CrashResult == [NoResults EXCEPT !["ERR"] = 1]
Zero        == [total |-> 0, passed |-> 0, failed |-> 0, skipped |-> 0, errors |-> 0]

Section  == 0..Categories
Guarded  == {"Discovering", "Running"}
Calling  == Guarded \cup {"AllocEnv", "SetVersion", "AllocDbc", "Connect",
                          "Disconnect", "FreeDbc", "FreeEnv"}

CommandLine == [format : {"console", "json"}, file : BOOLEAN]
GuardState  == [in : {0, 1}, live : BOOLEAN, handlers : {"Default", "Guard"},
                saved : {"Default", "Guard"}]
ProgramPoint == Calling \cup {"Start", "Discover", "Discovered", "Category", "Ran", "End",
                              "Return", "Exited", "Hung"}

JsonDocument == args.format = "json"

Init ==
  /\ args \in CommandLine
  /\ pc = "Start" /\ next = 1
  /\ guard = [in |-> 0, live |-> FALSE, handlers |-> "Default", saved |-> "Default"]
  /\ results = NoResults /\ crashed = {} /\ unstable = FALSE
  /\ totals = Zero /\ categories = << >> /\ summary = << >>
  /\ pending = << >> /\ out = << >> /\ stream = "good" /\ file = "Absent"
  /\ held = {} /\ connected = FALSE /\ leaked = {}
  /\ code = "none" /\ exit = "running"

-----------------------------------------------------------------------------
(* The crash guard.  Entering installs the handlers and saves the old      *)
(* dispositions; leaving puts them back.  An exception passes through      *)
(* without either, and the frame sigsetjmp recorded is gone.               *)

EnterGuard(g) ==
  [in |-> 1, live |-> TRUE, handlers |-> "Guard", saved |-> g.handlers]

LeaveGuardInstalled(g) == [g EXCEPT !.in = 0, !.live = FALSE]
LeaveGuard(g) == [g EXCEPT !.in = 0, !.live = FALSE, !.handlers = g.saved]

EscapeGuard(g) == [g EXCEPT !.live = FALSE]

\* A fault raises one of the four signals on the thread of main(); an overflow
\* leaves the handler no stack; a thread of the driver has an s_in_guard of its
\* own, which is 0; and other signals have no handler.
CrashKind == {"fault", "overflow", "thread", "other"}

\* What a crash comes to: siglongjmp into a frame that has returned is undefined
\* behaviour.
Signal(g, kind) == IF kind # "fault" \/ g.handlers = "Default" \/ g.in = 0 THEN "killed"
                   ELSE IF g.live THEN "caught" ELSE "undefined"

-----------------------------------------------------------------------------
(* Output.  The console reporter prints as it goes, the JSON reporter      *)
(* collects and prints at the end.  The system may refuse to take all of   *)
(* what is flushed, which nobody notices.                                  *)

ForConsole(items) == IF JsonDocument THEN << >> ELSE items

Write(items) ==
  /\ pending' = IF stream = "good" THEN pending \o items ELSE pending
  /\ UNCHANGED <<out, stream>>

Flush(items) ==
  /\ pending' = << >>
  /\ \/ stream = "good" /\ out' = out \o items /\ UNCHANGED stream
     \/ /\ stream = "good" /\ stream' = "bad"
        /\ \E k \in 0..Len(items) - 1 : out' = out \o SubSeq(items, 1, k) \o <<"Partial">>
     \/ stream = "bad" /\ UNCHANGED <<out, stream>>

\* The process dies; some of the buffer may have been written before.
Die(how) ==
  /\ pc' = "Exited" /\ exit' = how
  /\ \E k \in 0..Len(pending) : out' = out \o SubSeq(pending, 1, k)
  /\ pending' = << >>
  /\ UNCHANGED stream

ReportStart ==
  /\ pc = "Start"
  /\ pc' = "AllocEnv"
  /\ Write(ForConsole(<<"Banner">>))
  /\ UNCHANGED <<args, unstable, next, guard, results, crashed, report, file, odbc, code, exit>>

\* Leaving main() by an exception: destructors run from `from` on.
Unwind(c, from) == code' = c /\ pc' = from

\* Exceptions thrown by the constructor of OdbcEnvironment find nothing to
\* destroy: its destructor does not run.
Construct(here, handle, then, from) ==
  /\ pc = here
  /\ \/ held' = held \cup handle /\ pc' = then /\ UNCHANGED <<code, exit>>
     \/ Unwind("2", from) /\ UNCHANGED <<held, exit>>
  /\ UNCHANGED <<args, unstable, next, guard, results, crashed, report, output, connected, leaked>>

AllocEnv   == Construct("AllocEnv", {"env"}, "SetVersion", "Return")
SetVersion == Construct("SetVersion", {}, "AllocDbc", "Return")
AllocDbc   == Construct("AllocDbc", {"dbc"}, "Connect", "FreeEnv")

Connect ==
  /\ pc = "Connect"
  /\ \/ connected' = TRUE /\ pc' = "Discover" /\ UNCHANGED code
     \/ Unwind("2", "Disconnect") /\ UNCHANGED connected
  /\ UNCHANGED <<args, unstable, next, guard, results, crashed, report, output, held, leaked, exit>>

-----------------------------------------------------------------------------
(* The two kinds of guarded section.                                       *)

Discover ==
  /\ pc = "Discover"
  /\ pc' = "Discovering"
  /\ Flush(pending)
  /\ guard' = EnterGuard(guard)
  /\ UNCHANGED <<args, unstable, next, results, crashed, report, file, odbc, code, exit>>

DiscoveryReturns ==
  /\ pc = "Discovering"
  /\ pc' = "Discovered"
  /\ guard' = LeaveGuard(guard)
  /\ UNCHANGED <<args, unstable, next, results, crashed, report, output, odbc, code, exit>>

DiscoveryThrows ==
  /\ pc = "Discovering"
  /\ \E c \in {"2", "3"} : Unwind(c, "Disconnect")
  /\ guard' = EscapeGuard(guard)
  /\ UNCHANGED <<args, unstable, next, results, crashed, report, output, odbc, exit>>

ReportDiscovery ==
  /\ pc = "Discovered"
  /\ pc' = "Category"
  /\ Flush(pending \o (IF 0 \in crashed THEN << >> ELSE ForConsole(<<"Information">>))
            \o <<"Progress">>)
  /\ UNCHANGED <<args, unstable, next, guard, results, crashed, report, file, odbc, code, exit>>

RunCategory ==
  /\ pc = "Category" /\ next <= Categories
  /\ pc' = "Running"
  /\ Flush(pending)
  /\ guard' = EnterGuard(guard)
  /\ results' = NoResults
  /\ UNCHANGED <<args, unstable, next, crashed, report, file, odbc, code, exit>>

CategoryReturns ==
  /\ pc = "Running"
  /\ pc' = "Ran"
  /\ guard' = LeaveGuard(guard)
  /\ results' \in Results
  /\ UNCHANGED <<args, unstable, next, crashed, report, output, odbc, code, exit>>

CategoryThrows ==
  /\ pc = "Running"
  /\ Unwind("3", "Disconnect")
  /\ guard' = EscapeGuard(guard)
  /\ UNCHANGED <<args, unstable, next, results, crashed, report, output, odbc, exit>>

\* The jump back into execute_with_crash_guard skips the destructors of the
\* suite's statements; the results of the tests that had run are lost and one
\* error result stands for the category.
CrashedSection == IF pc = "Discovering" THEN 0 ELSE next

CrashCaughtRetrying ==
  /\ pc \in Guarded /\ \E kind \in CrashKind : Signal(guard, kind) = "caught"
  /\ guard' = LeaveGuard(guard)
  /\ crashed' = crashed \cup {CrashedSection}
  /\ leaked' \in {leaked, leaked \cup {CrashedSection}}
  /\ unstable' \in {unstable, TRUE}
  /\ Flush(pending)
  /\ \/ pc = "Discovering" /\ pc' = "Discover" /\ UNCHANGED results
     \/ pc = "Running" /\ pc' = "Ran" /\ results' = CrashResult
  /\ UNCHANGED <<args, next, report, file, held, connected, code, exit>>

CrashCaught ==
  /\ pc \in Guarded /\ \E kind \in CrashKind : Signal(guard, kind) = "caught"
  /\ guard' = LeaveGuard(guard)
  /\ crashed' = crashed \cup {CrashedSection}
  /\ leaked' \in {leaked, leaked \cup {CrashedSection}}
  /\ unstable' \in {unstable, TRUE}
  /\ Flush(pending)
  /\ \/ pc = "Discovering" /\ pc' = "Discovered" /\ UNCHANGED results
     \/ pc = "Running" /\ pc' = "Ran" /\ results' = CrashResult
  /\ UNCHANGED <<args, next, report, file, held, connected, code, exit>>

\* A crash nobody catches ends the process where it is.
CrashFatal ==
  /\ pc \in Calling
  /\ \E kind \in CrashKind : Signal(guard, kind) # "caught" /\ Die(Signal(guard, kind))
  /\ UNCHANGED <<args, unstable, next, guard, results, crashed, report, file, odbc, code>>

\* A process left unstable dies later, at any place, or waits for a lock that
\* the code that crashed holds.
GoesDown ==
  /\ unstable /\ pc \notin {"Exited", "Hung"}
  /\ \/ Die("killed")
     \/ pc' = "Hung" /\ UNCHANGED <<stdout, exit>>
  /\ UNCHANGED <<args, unstable, next, guard, results, crashed, report, file, odbc, code>>

-----------------------------------------------------------------------------
(* Reporting a category, the summary, the end.                             *)

TallyUncounted(t, r) ==
  [total   |-> t.total + Size(r),
   passed  |-> t.passed + r["PASS"],
   failed  |-> t.failed + r["FAIL"],
   skipped |-> t.skipped + r["SKIP"] + r["SKIP_UNSUPPORTED"],
   errors  |-> t.errors + r["ERR"]]

Tally(t, r) ==
  [total   |-> t.total + Size(r),
   passed  |-> t.passed + r["PASS"],
   failed  |-> t.failed + r["FAIL"],
   skipped |-> t.skipped + r["SKIP"] + r["SKIP_UNSUPPORTED"] + r["SKIP_INCONCLUSIVE"],
   errors  |-> t.errors + r["ERR"]]

Collect(r) == Append(categories, r)

ReportCategoryBuffered ==
  /\ pc = "Ran"
  /\ pc' = "Category"
  /\ next' = next + 1
  /\ categories' = Collect(results)
  /\ totals' = Tally(totals, results)
  /\ Write(ForConsole(<<"Category">>))
  /\ UNCHANGED <<args, unstable, guard, results, crashed, summary, file, odbc, code, exit>>

ReportCategory ==
  /\ pc = "Ran"
  /\ pc' = "Category"
  /\ next' = next + 1
  /\ categories' = Collect(results)
  /\ totals' = Tally(totals, results)
  /\ Flush(pending \o ForConsole(<<"Category">>))
  /\ UNCHANGED <<args, unstable, guard, results, crashed, summary, file, odbc, code, exit>>

ReportSummary ==
  /\ pc = "Category" /\ next > Categories
  /\ pc' = "End"
  /\ summary' = <<totals>>
  /\ Write(ForConsole(<<"Summary">>))
  /\ UNCHANGED <<args, unstable, next, guard, results, crashed, totals, categories, file, odbc, code, exit>>

ExitCodeByFailures(t) == IF t.failed > 0 THEN "1" ELSE "0"
ExitCode(t) == IF t.failed > 0 \/ t.errors > 0 THEN "1" ELSE "0"

\* Serialising the document throws when a text from the driver or the command
\* line is not UTF-8; what was written by then stays written.
DocumentTo(delivered, broken) ==
  \/ JsonDocument /\ ~args.file /\ Unwind(delivered, "Disconnect")
       /\ Flush(Append(pending, "Json")) /\ UNCHANGED file
  \/ JsonDocument /\ ~args.file /\ Unwind(broken, "Disconnect")
       /\ Write(<<"Partial">>) /\ UNCHANGED file
  \* The stream of the file is not looked at again once it is open.
  \/ JsonDocument /\ args.file /\ Unwind(delivered, "Disconnect")
       /\ file' \in {"Whole", "Short"} /\ Flush(Append(pending, "Written"))
  \/ JsonDocument /\ args.file /\ Unwind(delivered, "Disconnect")
       /\ file' = "Refused" /\ UNCHANGED stdout
  \/ JsonDocument /\ args.file /\ Unwind(broken, "Disconnect")
       /\ file' = "Partial" /\ UNCHANGED stdout

ReportEndIgnoringErrors ==
  /\ pc = "End"
  /\ \/ ~JsonDocument /\ Unwind(ExitCode(totals), "Disconnect") /\ UNCHANGED output
     \/ DocumentTo(ExitCode(totals), ExitCode(totals))
  /\ UNCHANGED <<args, unstable, next, guard, results, crashed, report, odbc, exit>>

ReportEnd ==
  /\ pc = "End"
  /\ \/ ~JsonDocument /\ Unwind(ExitCode(totals), "Disconnect") /\ UNCHANGED output
     \/ DocumentTo(ExitCode(totals), "3")
  /\ UNCHANGED <<args, unstable, next, guard, results, crashed, report, odbc, exit>>

-----------------------------------------------------------------------------
(* Destructors, on every way out of main().                                *)

DisconnectOnly ==
  /\ pc = "Disconnect"
  /\ pc' = IF connected THEN "FreeEnv" ELSE "FreeDbc"
  /\ \/ connected /\ connected' = FALSE /\ leaked' \in {leaked, {}}
     \/ UNCHANGED <<connected, leaked>>
  /\ UNCHANGED <<args, unstable, next, guard, results, crashed, report, output, held, code, exit>>

\* ~OdbcConnection swallows the failure of SQLDisconnect.  Whether a driver
\* frees the statements left on the connection is the driver's business.
Disconnect ==
  /\ pc = "Disconnect"
  /\ pc' = "FreeDbc"
  /\ \/ connected /\ connected' = FALSE /\ leaked' \in {leaked, {}}
     \/ UNCHANGED <<connected, leaked>>
  /\ UNCHANGED <<args, unstable, next, guard, results, crashed, report, output, held, code, exit>>

\* SQLFreeHandle refuses a connection that is open or has statements, and an
\* environment that has connections; the destructors ignore the refusal.
FreeDbc ==
  /\ pc = "FreeDbc"
  /\ pc' = "FreeEnv"
  /\ held' = IF connected \/ leaked # {} THEN held ELSE held \ {"dbc"}
  /\ UNCHANGED <<args, unstable, next, guard, results, crashed, report, output, connected, leaked, code, exit>>

FreeEnv ==
  /\ pc = "FreeEnv"
  /\ pc' = "Return"
  /\ held' = IF "dbc" \in held THEN held ELSE held \ {"env"}
  /\ UNCHANGED <<args, unstable, next, guard, results, crashed, report, output, connected, leaked, code, exit>>

Return ==
  /\ pc = "Return"
  /\ pc' = "Exited" /\ exit' = code
  /\ Flush(pending)
  /\ UNCHANGED <<args, unstable, next, guard, results, crashed, report, file, odbc, code>>

-----------------------------------------------------------------------------

Next ==
  \/ ReportStart \/ AllocEnv \/ SetVersion \/ AllocDbc \/ Connect
  \/ Discover \/ DiscoveryReturns \/ DiscoveryThrows \/ ReportDiscovery
  \/ RunCategory \/ CategoryReturns \/ CategoryThrows
  \/ CrashCaught \/ CrashFatal \/ GoesDown
  \/ ReportCategory \/ ReportSummary \/ ReportEnd
  \/ Disconnect \/ FreeDbc \/ FreeEnv \/ Return

Spec == Init /\ [][Next]_vars

\* One thread runs main(), so it keeps taking steps as long as every call into
\* the driver ends, by returning or by crashing.  Nothing bounds a call that hangs.
FairSpec == Spec /\ WF_vars(Next)

-----------------------------------------------------------------------------

TypeOK ==
  /\ args \in CommandLine
  /\ pc \in ProgramPoint
  /\ next \in 1..Categories + 1
  /\ guard \in GuardState
  /\ results \in [Status -> Nat]
  /\ crashed \subseteq Section /\ leaked \subseteq crashed
  /\ totals \in [{"total", "passed", "failed", "skipped", "errors"} -> Nat]
  /\ categories \in Seq([Status -> Nat]) /\ Len(categories) = next - 1
  /\ summary \in {<< >>, <<totals>>}
  /\ unstable \in BOOLEAN
  /\ stream \in {"good", "bad"}
  /\ file \in {"Absent", "Whole", "Short", "Partial", "Refused"}
  /\ held \subseteq {"env", "dbc"}
  /\ connected \in BOOLEAN
  /\ code \in {"none", "0", "1", "2", "3"}
  /\ exit \in {"running", "0", "1", "2", "3", "killed", "undefined"}

\* The results of status s in the report, and how many there are.
Reported(s) == UNION {{i} \X (1..categories[i][s]) : i \in DOMAIN categories}
Number(s) == Cardinality(Reported(s))

\* The counters main() keeps by itself (main.cpp:42-58) are those of the results
\* the reporter was handed, category by category: every heading counts exactly
\* the results with its statuses, and the total counts all of them.
CountersAgree ==
  /\ totals.passed  = Number("PASS")
  /\ totals.failed  = Number("FAIL")
  /\ totals.skipped = Number("SKIP") + Number("SKIP_UNSUPPORTED") + Number("SKIP_INCONCLUSIVE")
  /\ totals.errors  = Number("ERR")
  /\ totals.total   = totals.passed + totals.failed + totals.skipped + totals.errors

\* Exit code 0 is only ever given after every category was run and reported
\* without one failed or errored test, and a category whose run crashed is in
\* the report as exactly one error, so it can never end in 0.
ExitIsHonest ==
  /\ exit \in {"0", "1"} => Len(categories) = Categories /\ summary = <<totals>>
  /\ exit = "0" => \A i \in DOMAIN categories :
                     categories[i]["FAIL"] = 0 /\ categories[i]["ERR"] = 0
  /\ \A i \in crashed \ {0} : i \in DOMAIN categories => categories[i] = CrashResult

\* What a JSON run has printed when it ends in good order: the line of main.cpp:194,
\* then the document, or the news of it if there is a file to tell of.
JsonOutput ==
  <<"Progress">> \o (IF ~args.file THEN <<"Json">>
                    ELSE IF file = "Refused" THEN << >> ELSE <<"Written">>)

\* A JSON document that could not be serialised never goes out under 0 or 1.  Under
\* those codes stdout has the document, whole and once, behind one line of text and
\* nothing else; what the system would not write, or a file of -f it would not open,
\* changes no code (json_reporter.cpp:84-98, main.cpp:194).
ReportIsDelivered ==
  JsonDocument /\ exit \in {"0", "1"} =>
    /\ args.file => file \in {"Whole", "Short", "Refused"}
    /\ stream = "good" => out = JsonOutput

\* What the console report has printed once it is in a guarded section or has
\* collected a category.
Printed ==
  <<"Banner">> \o (IF 0 \in crashed THEN << >> ELSE <<"Information">>)
    \o <<"Progress">> \o [i \in DOMAIN categories |-> "Category"]

\* What the console report printed before a guarded section, and every category it
\* collected, has left the process, however that dies or hangs from then on
\* (crash_guard.cpp:117-122, main.cpp:91).
OutputSurvives ==
  ~JsonDocument /\ stream = "good" =>
    /\ pc = "Discovering" => out = <<"Banner">>
    /\ pc = "Running" \/ categories # << >> =>
         Len(Printed) <= Len(out) /\ SubSeq(out, 1, Len(Printed)) = Printed

\* Outside a guarded section the process has its own signal dispositions back, and
\* no crash jumps into a section that is over, as long as main() is not being left by
\* an exception (crash_guard.cpp:103-110, 178-182).
GuardIsClosed ==
  /\ pc \notin Guarded \cup {"Exited", "Hung"} /\ code \in {"none", "0", "1"} =>
       guard.in = 0 /\ ~guard.live /\ guard.handlers = "Default"
  /\ exit = "undefined" => code \in {"2", "3"}

\* Unless a crash jumped over the owners of some handles, or the driver would not
\* disconnect, a run that ends in 0 or 1 has freed every handle it allocated.
HandlesAreFreed ==
  exit \in {"0", "1"} /\ crashed = {} /\ ~connected => held = {}

\* Whatever the driver does short of hanging, the run ends, unless a crash that
\* was caught left the process unstable (crash_guard.cpp:83-88).
Terminates == <>(exit # "running" \/ unstable)

=============================================================================
