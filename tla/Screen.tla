------------------------------- MODULE Screen -------------------------------
(***************************************************************************)
(* The screens of client and server (client/src/tui.rs, server/src/tui.rs) *)
(* over the log (LogBuffer) and the collector's samples, and the entry     *)
(* points that wait for them (client/src/main.rs, server/src/main.rs).     *)
(*                                                                         *)
(* Either screen is a loop of three parts: a key is polled for, the charts *)
(* are refreshed from the latest samples when it is time, and the screen   *)
(* is drawn.  The client's runs on a thread of its own, draws only when it *)
(* must and keeps a cache of its charts' data; the server's runs inside    *)
(* main's select, which sees nothing else before the screen returns.       *)
(* A sample is its number, and what a widget looks like is left out but    *)
(* for the window of the log.                                              *)
(***************************************************************************)
EXTENDS LogBuffer

CONSTANTS
    Visible,     \* visible_logs: lines of the log's window (8)
    Margin,      \* the 10 that Down leaves
    MaxHistory,  \* MAX_HISTORY_SIZE
    MaxSamples   \* bound: passes of the sampler

ASSUME WindowAssumption ==
    /\ Visible \in Nat \ {0} /\ Margin \in Nat /\ Visible <= Margin
    /\ MaxHistory \in Nat \ {0} /\ MaxSamples \in Nat

VARIABLES
    kind,        \* "client" or "server"
    screen,      \* "off", then "poll", "update", "render"; "gone" at last
    should_quit, show_logs, log_scroll,
    force_render,
    view,        \* the last drawing: was the log shown, how far scrolled, which lines
    history,     \* throughput_history, latency_history and error_history
    cached,      \* cached_datasets: {} for None, or the set of the one cache
    latest,      \* the collector's latest sample of each, 0 for none
    passes,      \* passes of the sampler
    over,        \* the simulation or a server's task has ended, or a signal came
    main         \* "select", "report", "returned", "exited"

screenVars == <<screen, should_quit, show_logs, log_scroll, force_render, view,
                history, cached>>
restVars == <<latest, passes, over, main>>
vars == <<logVars, kind, screenVars, restVars>>

Sources == {"throughput", "latency", "errors"}

Max(a, b) == IF a >= b THEN a ELSE b
Min(a, b) == IF a <= b THEN a ELSE b

Init ==
    /\ LogInit
    /\ kind \in {"client", "server"}
    /\ screen = "off"
    /\ should_quit = FALSE /\ show_logs = FALSE /\ log_scroll = 0
    /\ force_render = TRUE
    /\ view = [shown |-> FALSE, scroll |-> 0, total |-> 0, start |-> 0]
    /\ history = [s \in Sources |-> <<>>]
    /\ cached = {}
    /\ latest = [s \in Sources |-> 0]
    /\ passes = 0
    /\ over = FALSE
    /\ main = "select"

-----------------------------------------------------------------------------
(* The screens.                                                            *)

\* The server's screen is a branch of main's select; the client's is a thread of
\* its own, which may be late.
MayStart == screen = "off" /\ (main = "select" \/ (kind = "client" /\ main # "exited"))

\* The client's loop begins with the poll, the server's with a drawing.
Start ==
    /\ MayStart
    /\ screen' = IF kind = "client" THEN "poll" ELSE "render"
    /\ UNCHANGED <<logVars, kind, should_quit, show_logs, log_scroll, force_render,
                   view, history, cached, restVars>>

\* q or Esc: the client's loop is left at once, the server's after its refresh.
Quit ==
    /\ screen = "poll"
    /\ should_quit' = TRUE
    /\ screen' = IF kind = "client" THEN "gone" ELSE "update"
    /\ UNCHANGED <<logVars, kind, show_logs, log_scroll, force_render, view,
                   history, cached, restVars>>

\* l: the log is shown or hidden, from its end.
Toggle ==
    /\ screen = "poll" /\ screen' = "update"
    /\ show_logs' = ~show_logs
    /\ log_scroll' = 0
    /\ force_render' = TRUE
    /\ UNCHANGED <<logVars, kind, should_quit, view, history, cached, restVars>>

\* Up goes to newer entries.
Up ==
    /\ screen = "poll" /\ screen' = "update"
    /\ show_logs /\ log_scroll > 0
    /\ log_scroll' = log_scroll - 1
    /\ force_render' = TRUE
    /\ UNCHANGED <<logVars, kind, should_quit, show_logs, view, history, cached,
                   restVars>>

\* Mutant: the length of the log is the limit.
DownToTheEnd ==
    /\ screen = "poll" /\ screen' = "update"
    /\ show_logs /\ log_scroll < Len(entries)
    /\ log_scroll' = log_scroll + 1
    /\ force_render' = TRUE
    /\ UNCHANGED <<logVars, kind, should_quit, show_logs, view, history, cached,
                   restVars>>

\* Down goes to older ones, as long as Margin entries are left.
Down ==
    /\ screen = "poll" /\ screen' = "update"
    /\ show_logs /\ log_scroll < Max(0, Len(entries) - Margin)
    /\ log_scroll' = log_scroll + 1
    /\ force_render' = TRUE
    /\ UNCHANGED <<logVars, kind, should_quit, show_logs, view, history, cached,
                   restVars>>

\* No key, or one without effect.
NoKey ==
    /\ screen = "poll" /\ screen' = "update"
    /\ UNCHANGED <<logVars, kind, should_quit, show_logs, log_scroll, force_render,
                   view, history, cached, restVars>>

AfterUpdate == IF should_quit THEN "gone" ELSE "render"

\* Polling, reading or drawing fails, or the terminal cannot be set up: run
\* returns its error.
ScreenFails ==
    /\ screen \in {"poll", "render"} \/ MayStart
    /\ screen' = "gone"
    /\ UNCHANGED <<logVars, kind, should_quit, show_logs, log_scroll, force_render,
                   view, history, cached, restVars>>

\* It is not yet time for a refresh.
SkipUpdate ==
    /\ screen = "update" /\ screen' = AfterUpdate
    /\ UNCHANGED <<logVars, kind, should_quit, show_logs, log_scroll, force_render,
                   view, history, cached, restVars>>

\* A history with the latest sample, if there is one, and without its oldest
\* when it is too long.
Extended(s) ==
    LET grown == IF latest[s] > 0 THEN Append(history[s], latest[s]) ELSE history[s]
    IN  IF Len(grown) > MaxHistory THEN Tail(grown) ELSE grown

\* Mutant: the throughput alone decides on the cache.
UpdateMetricsPartly ==
    /\ screen = "update" /\ screen' = AfterUpdate
    /\ history' = [s \in Sources |-> Extended(s)]
    /\ cached' = IF kind = "client" /\ latest["throughput"] > 0 THEN {history'} ELSE cached
    /\ force_render' = TRUE
    /\ UNCHANGED <<logVars, kind, should_quit, show_logs, log_scroll, view, restVars>>

\* update_metrics: when anything came in the client drops its cache and builds
\* it anew.
UpdateMetrics ==
    /\ screen = "update" /\ screen' = AfterUpdate
    /\ history' = [s \in Sources |-> Extended(s)]
    /\ cached' = IF kind = "client" /\ \E s \in Sources : latest[s] > 0
                 THEN {history'} ELSE cached
    /\ force_render' = TRUE
    /\ UNCHANGED <<logVars, kind, should_quit, show_logs, log_scroll, view, restVars>>

\* render_logs: the window ends log_scroll entries before the newest, and stays
\* inside the log.
StartIndex(total) ==
    IF total > Visible
    THEN Max(0, (total - Visible) - Min(log_scroll, total - Visible))
    ELSE 0

Render ==
    /\ screen = "render" /\ screen' = "poll"
    /\ LET total == IF show_logs THEN Len(entries) ELSE 0
       IN  view' = [shown |-> show_logs, scroll |-> log_scroll,
                    total |-> total, start |-> StartIndex(total)]
    /\ force_render' = FALSE
    /\ UNCHANGED <<logVars, kind, should_quit, show_logs, log_scroll, history, cached,
                   restVars>>

\* The client alone leaves a drawing out that nothing has asked for.
SkipRender ==
    /\ screen = "render" /\ screen' = "poll"
    /\ kind = "client" /\ ~force_render
    /\ UNCHANGED <<logVars, kind, should_quit, show_logs, log_scroll, force_render,
                   view, history, cached, restVars>>

-----------------------------------------------------------------------------
(* The sampler, the program's work, and main.                              *)

\* A pass of the sampler, taken as one step: the sample of the throughput is
\* left out when too little time has gone by.
Sample ==
    /\ main = "select" /\ passes < MaxSamples
    /\ \E missed \in SUBSET {"throughput"} :
        latest' = [s \in Sources |-> IF s \in missed THEN latest[s] ELSE latest[s] + 1]
    /\ passes' = passes + 1
    /\ UNCHANGED <<logVars, kind, screenVars, over, main>>

WorkEnds ==
    /\ main = "select" /\ ~over
    /\ over' = TRUE
    /\ UNCHANGED <<logVars, kind, screenVars, latest, passes, main>>

\* Mutant: the end of the screen is not waited for.
LeaveSelectDeaf ==
    /\ main = "select"
    /\ over
    /\ kind = "server" => screen \in {"off", "gone"}
    /\ main' = "report"
    /\ UNCHANGED <<logVars, kind, screenVars, latest, passes, over>>

\* A branch of main's select is ready; the server's screen must not be running.
LeaveSelect ==
    /\ main = "select"
    /\ screen = "gone" \/ over
    /\ kind = "server" => screen \in {"off", "gone"}
    /\ main' = "report"
    /\ UNCHANGED <<logVars, kind, screenVars, latest, passes, over>>

\* The report is written and main returns: the runtime drops every task.
Report ==
    /\ main = "report"
    /\ main' = "returned"
    /\ UNCHANGED <<logVars, kind, screenVars, latest, passes, over>>

\* The runtime waits for the thread the client's screen runs on.
Exit ==
    /\ main = "returned" /\ screen \in {"off", "gone"}
    /\ main' = "exited"
    /\ UNCHANGED <<logVars, kind, screenVars, latest, passes, over>>

-----------------------------------------------------------------------------
Key == Quit \/ Toggle \/ Up \/ Down \/ NoKey

ScreenStep ==
    Start \/ Key \/ SkipUpdate \/ UpdateMetrics \/ Render \/ SkipRender

\* Tasks log and write until main has returned.
LogStep == main \in {"select", "report"} /\ LogNext /\ UNCHANGED <<kind, screenVars, restVars>>

MainStep == LeaveSelect \/ Report \/ Exit

Next == ScreenStep \/ ScreenFails \/ LogStep \/ Sample \/ WorkEnds \/ MainStep

Spec == Init /\ [][Next]_vars

\* The screen's loop, the file's task and main are always run; no key, sample,
\* entry or signal need ever come.
FairSpec ==
    /\ Spec
    /\ WF_vars(ScreenStep) /\ WF_vars(MainStep)
    /\ WF_vars(main \in {"select", "report"} /\ FilerStep
               /\ UNCHANGED <<kind, screenVars, restVars>>)

-----------------------------------------------------------------------------
(* Properties.                                                             *)

\* What a key changed is on the screen before the next key is read, and the
\* window of the log ends exactly log_scroll entries before the newest: the
\* limit that the handler of Down reads off a log still growing (tui.rs:111)
\* and the one render_logs reads later (tui.rs:757) never disagree.
KeysShow ==
    /\ (screen = "poll" /\ ~force_render) =>
            view.shown = show_logs /\ view.scroll = log_scroll
    /\ view.shown => view.start + Min(Visible, view.total) = view.total - view.scroll

\* The charts draw their lines from the cache and their bounds from the
\* histories (tui.rs:498-557), which therefore may never differ.
CacheFresh ==
    /\ kind = "client" =>
        cached = IF \A s \in Sources : history[s] = <<>> THEN {} ELSE {history}
    /\ \A s \in Sources : Len(history[s]) <= MaxHistory

\* A screen that is left, by a key or an error, ends the program on either
\* side, after its report.
QuitEnds == screen = "gone" ~> main = "exited"

\* The client reports when its simulation is over or it is interrupted, though
\* its screen stays until a key is pressed; the server's main cannot.
WorkReported ==
    (kind = "client" /\ over) ~> main \in {"returned", "exited"}

\* Until then, whatever fails to be written, the file's channel empties.
ChannelDrains == channel # <<>> ~> (channel = <<>> \/ main \in {"returned", "exited"})

\* The three together: nothing the threads wait for is lost.
ProgramSettles == QuitEnds /\ WorkReported /\ ChannelDrains
=============================================================================
