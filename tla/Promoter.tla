------------------------------ MODULE Promoter ------------------------------
(***************************************************************************)
(* The launcher's processes: applications/launch/{bfs,...}/main.cpp and    *)
(* utils/common.h.  The application forks a perf process, a process that   *)
(* tracks huge pages and the promoter, which poll for the file done.txt    *)
(* that the application creates and later removes.                         *)
(*                                                                         *)
(* The application may crash at any point.  The outcome of madvise is only *)
(* printed, so it is left out.                                             *)
(***************************************************************************)
EXTENDS Integers, SequencesExt

Child == {"perf", "thp", "promoter"}

VARIABLES
    app,                \* "loading", "running", "cleaned" or "gone"
    done_txt,           \* whether the file exists
    child,              \* child -> "waiting", "running" or "ended"
    promotions,         \* promotions_over_time: time -> ranges [start, num]
    demotions,          \* demotions_over_time, likewise
    promotion_it, demotion_it,   \* the times they point to, or None: the end
    promoting, demoting          \* history: the ranges given to madvise

promoterVars == <<promotions, demotions, promotion_it, demotion_it, promoting, demoting>>
pvars == <<app, done_txt, child, promoterVars>>

None == 0
-----------------------------------------------------------------------------
(***************************************************************************)
(* read_promotions_over_time: consecutive regions become one range.        *)
(***************************************************************************)
RangeOf(a) == [start |-> a.start, num |-> a.num]

\* data[time] of a map, and data[time].push_back(...).
At(data, time) == IF time \in DOMAIN data THEN data[time] ELSE <<>>
Push(data, time, range) ==
    [k \in DOMAIN data \cup {time} |-> IF k = time THEN Append(At(data, time), range) ELSE data[k]]

\* Faulty: a new time does not end the range.
ReadLineJoins(a, line) ==
    LET extends == line.addr = a.offset + 1 \/ a.num = 0
    IN  [data |-> IF extends THEN a.data ELSE Push(a.data, a.time, RangeOf(a)),
         time |-> line.time,
         offset |-> line.addr,
         start |-> IF extends /\ a.num > 0 THEN a.start ELSE line.addr,
         num |-> IF extends THEN a.num + 1 ELSE 1]

\* One line: end the range if the time changes, then extend it or start one.
ReadLine(a, line) ==
    LET new == a.time # line.time
        num == IF new THEN 0 ELSE a.num
        extends == num = 0 \/ line.addr = a.offset + 1
    IN  [data |-> IF a.num > 0 /\ (new \/ ~extends) THEN Push(a.data, a.time, RangeOf(a)) ELSE a.data,
         time |-> line.time,
         offset |-> line.addr,
         start |-> IF extends /\ num > 0 THEN a.start ELSE line.addr,
         num |-> IF extends THEN num + 1 ELSE 1]

\* time and offset are not initialized, which does not matter: num_offsets is 0.
Unread == [data |-> [k \in {} |-> <<>>], time |-> None, offset |-> None, start |-> None, num |-> 0]
read_promotions_over_time(file) ==
    LET Read[n \in 0..Len(file)] == IF n = 0 THEN Unread ELSE ReadLine(Read[n - 1], file[n])
        a == Read[Len(file)]
    IN  IF file = <<>> THEN a.data ELSE Push(a.data, a.time, RangeOf(a))

\* The next key of the map.
FirstAfter(data, now) ==
    LET later == {k \in DOMAIN data : k > now} IN IF later = {} THEN None ELSE Min(later)
-----------------------------------------------------------------------------
PInit ==
    /\ app = "loading" /\ done_txt = FALSE
    /\ child = [c \in Child |-> "waiting"]
    /\ promotions = Unread.data /\ demotions = Unread.data
    /\ promotion_it = None /\ demotion_it = None
    /\ promoting = <<>> /\ demoting = <<>>

\* main forks; the promoter reads its files before it starts to poll.
Launch(promotion_filename, demotion_filename) ==
    /\ promotions' = read_promotions_over_time(promotion_filename)
    /\ demotions' = read_promotions_over_time(demotion_filename)
    /\ promotion_it' = FirstAfter(promotions', None)
    /\ demotion_it' = FirstAfter(demotions', None)
    /\ UNCHANGED <<app, done_txt, child, promoting, demoting>>

\* setup_app, after the graph is loaded.
SetupApp ==
    /\ app = "loading"
    /\ app' = "running" /\ done_txt' = TRUE
    /\ UNCHANGED <<child, promoterVars>>

\* cleanup_app, after the kernel.
CleanupApp ==
    /\ app = "running"
    /\ app' = "cleaned" /\ done_txt' = FALSE
    /\ UNCHANGED <<child, promoterVars>>

\* The end of main: SIGINT to the process group of perf, and exit.
ExitApp ==
    /\ app = "cleaned"
    /\ app' = "gone"
    /\ child' = [child EXCEPT !["perf"] = "ended"]
    /\ UNCHANGED <<done_txt, promoterVars>>

Crash ==
    /\ app # "gone"
    /\ app' = "gone"
    /\ UNCHANGED <<done_txt, child, promoterVars>>

\* A child finds the file.  (A poll that does not is no step.)
Poll(c) ==
    /\ child[c] = "waiting" /\ done_txt
    /\ child' = [child EXCEPT ![c] = "running"]
    /\ UNCHANGED <<app, done_txt, promoterVars>>

\* Faulty: they end when the file is removed.
WatcherEndsWithFile(c) ==
    /\ c # "promoter"
    /\ child[c] = "running" /\ ~done_txt
    /\ child' = [child EXCEPT ![c] = "ended"]
    /\ UNCHANGED <<app, done_txt, promoterVars>>

\* perf stat -p ends with the process it watches, and the loop of
\* launch_thp_tracking with kill(pid, 0).
WatcherEnds(c) ==
    /\ c # "promoter"
    /\ child[c] = "running" /\ app = "gone"
    /\ child' = [child EXCEPT ![c] = "ended"]
    /\ UNCHANGED <<app, done_txt, promoterVars>>

\* The loop of launch_promoter ends when the application is gone ...
PromoterEnds ==
    /\ child["promoter"] = "running" /\ app = "gone"
    /\ child' = [child EXCEPT !["promoter"] = "ended"]
    /\ UNCHANGED <<app, done_txt, promoterVars>>

\* Faulty: a demotion does not wait for its time.
PromoteTimeAnyDemotion ==
    LET due == IF demotion_it = None THEN <<>> ELSE At(demotions, demotion_it)
    IN  /\ child["promoter"] = "running" /\ app # "gone"
        /\ promoting' = promoting \o At(promotions, promotion_it)
        /\ demoting' = demoting \o due
        /\ demotion_it' = FirstAfter(demotions, demotion_it)
        /\ promotion_it' = FirstAfter(promotions, promotion_it)
        /\ child' = [child EXCEPT !["promoter"] = IF promotion_it' = None THEN "ended" ELSE @]
        /\ UNCHANGED <<app, done_txt, promotions, demotions>>

\* ... or after the last time: promote the ranges of this time, then demote
\* those of the demotion iterator if it is at this very time.  (At the end of
\* a map the code reads what lies behind it and may add an entry without
\* ranges; no range is promoted or demoted by that.)
PromoteTime ==
    LET demotes == promotion_it # None /\ demotion_it = promotion_it
    IN  /\ child["promoter"] = "running" /\ app # "gone"
        /\ promoting' = promoting \o At(promotions, promotion_it)
        /\ demoting' = IF demotes THEN demoting \o At(demotions, demotion_it) ELSE demoting
        /\ demotion_it' = IF demotes THEN FirstAfter(demotions, demotion_it) ELSE demotion_it
        /\ promotion_it' = FirstAfter(promotions, promotion_it)
        /\ child' = [child EXCEPT !["promoter"] = IF promotion_it' = None THEN "ended" ELSE @]
        /\ UNCHANGED <<app, done_txt, promotions, demotions>>

AppStep == SetupApp \/ CleanupApp \/ ExitApp
ChildStep(c) == Poll(c) \/ WatcherEnds(c) \/ (c = "promoter" /\ (PromoterEnds \/ PromoteTime))
PNext == AppStep \/ Crash \/ \E c \in Child : ChildStep(c)
=============================================================================
