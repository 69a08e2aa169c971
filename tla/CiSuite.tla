------------------------------ MODULE CiSuite -------------------------------
(***************************************************************************)
(* npt-ci run (ci/src/main.rs, run_suite and test_one_port): the loop over *)
(* the configured ports, the panel's answers, the legs driven through each *)
(* port, the verdict on their metrics (detect.rs), the artifacts archived  *)
(* after a failure (archive.rs), the summary and the exit code (report.rs).*)
(*                                                                         *)
(* The program is sequential; what varies is what the panel, the resolver, *)
(* the probe and the disk answer, and which of the best-effort steps fail. *)
(* A probe run is one step that returns any metrics a finished run can     *)
(* have; ProbeRun models how it comes by them.  Of a metric the model      *)
(* keeps what evaluate compares: counts of flows, "some stall", "some byte *)
(* sent", "below the floor".  Left out: names, the text of the reasons,    *)
(* the table on the console.                                               *)
(***************************************************************************)
EXTENDS Integers, Sequences, SequencesExt

CONSTANTS
    PortLists,  \* lists of port ids the config file and --ports may leave
    Protocol,   \* cfg.test.protocol: "tcp", "udp" or "both"
    Flows,      \* connections_per_port
    Detects,    \* values of cfg.detect: its flags, max_fail in percent, and
                \* whether the throughput floor and the RTT ceiling are set
    Servers,    \* backing servers the panel may name
    CollectLogs,\* cfg.archive.collect_logs
    Troubles    \* bound: failures of panel or disk while archiving

ASSUME FlowsAssumption == Flows \in Nat \ {0}
ASSUME TroublesAssumption == Troubles \in Nat
ASSUME ListsAssumption == \A l \in PortLists : l \in Seq(Nat)
ASSUME DetectsAssumption ==
    Detects \subseteq [stall : BOOLEAN, disconnect : BOOLEAN, no_return : BOOLEAN,
                       max_fail : 0..100, floor : BOOLEAN, ceiling : BOOLEAN]

VARIABLES
    pc,        \* where run_suite stands
    port_ids,  \* cfg.port_ids
    detect,    \* cfg.detect
    at,        \* position of the port under test
    legs,      \* protos still to drive on this port
    servers,   \* what port_servers gave
    verdict,   \* on the leg under test
    todo,      \* artifacts still to fetch
    outcomes,  \* RunSummary's list
    dirs,      \* artifact directories: <<port, leg>> -> files in it
    code,      \* the exit code
    trouble,   \* failures of panel or disk so far
    answers,   \* history: what the panel said of each position
    broken,    \* history: the legs <<position, leg>> whose path was broken
    refused    \* history: artifacts that panel or disk refused

cfg == <<port_ids, detect>>
env == <<trouble, answers, broken, refused>>
suiteVars == <<pc, cfg, at, legs, servers, verdict, todo, outcomes, dirs, code, env>>

Snapshots == {"connection_stats", "test_latency", "blocked_ips"}
NoPort == "none"      \* the panel gave no port, or its address does not resolve
Answers == {NoPort, "suspended", "proxied", "tcp", "tcp+udp"}
NoCode == -1

Port == port_ids[at]
Leg == Head(legs)

\* The metrics a finished run of Flows flows can have.  A flow that never
\* received has not stalled, and nothing returns to a client that sent nothing.
PossibleMetrics ==
    {m \in [connected : 0..Flows, connect_failed : 0..Flows,
            stalled : BOOLEAN, disconnects : 0..Flows, no_return : 0..Flows,
            sent : BOOLEAN, slow : BOOLEAN, late : BOOLEAN] :
        /\ m.connected + m.connect_failed = Flows
        /\ m.disconnects <= m.connected /\ m.no_return <= m.connected
        /\ m.stalled => m.no_return < m.connected
        /\ ~m.sent => m.no_return = m.connected
        /\ m.no_return = m.connected => m.slow /\ ~m.late}

-----------------------------------------------------------------------------
(* detect.rs: the verdict.                                                 *)

\* Mutant: the ratio is compared with >=.
TooManyFailedOrEqual(m) == m.connect_failed * 100 >= detect.max_fail * Flows

\* connect_failed / attempted > max_connect_fail_ratio, without the division.
TooManyFailed(m) == m.connect_failed * 100 > detect.max_fail * Flows

\* The reasons that evaluate collects; no flow connected is the only one then.
Reasons(m) ==
    IF m.connected = 0 THEN {"no connection"}
    ELSE {r \in {"stall", "disconnect", "nothing sent", "no return", "ratio",
                 "floor", "ceiling"} :
            \/ r = "stall" /\ detect.stall /\ m.stalled
            \/ r = "disconnect" /\ detect.disconnect /\ m.disconnects > 0
            \/ r = "nothing sent" /\ ~m.sent
            \/ r = "no return" /\ m.sent /\ detect.no_return /\ m.no_return > 0
            \/ r = "ratio" /\ TooManyFailed(m)
            \/ r = "floor" /\ detect.floor /\ m.slow
            \/ r = "ceiling" /\ detect.ceiling /\ m.late}

Evaluate(m) == IF Reasons(m) = {} THEN "pass" ELSE "fail"

\* What ci/README.md calls a failure, in its order and under the configured
\* switches; and, which that list does not have, the client that could send
\* nothing (detect.rs:55).
Broken(m) ==
    \/ detect.stall /\ m.stalled
    \/ detect.no_return /\ m.no_return > 0
    \/ detect.disconnect /\ m.disconnects > 0
    \/ m.connected = 0
    \/ Flows * detect.max_fail < 100 * (Flows - m.connected)
    \/ detect.floor /\ m.slow
    \/ detect.ceiling /\ m.late
    \/ ~m.sent

-----------------------------------------------------------------------------
(* run_suite: configuration.                                               *)

SuiteInit ==
    /\ pc = "config"
    /\ port_ids = <<>> /\ detect \in Detects /\ at = 1 /\ legs = <<>> /\ servers = {}
    /\ verdict = "none" /\ todo = {}
    /\ outcomes = <<>> /\ dirs = <<>> /\ code = NoCode
    /\ trouble = 0 /\ answers = <<>> /\ broken = {} /\ refused = {}

\* An unreadable config, no port left to test, or a panel that cannot be built.
ConfigFails ==
    /\ pc = "config"
    /\ pc' = "exit" /\ code' = 2
    /\ UNCHANGED <<cfg, at, legs, servers, verdict, todo, outcomes, dirs, env>>

\* --ports replaces the file's list; ids that do not parse are dropped from it.
Configured ==
    /\ pc = "config"
    /\ \E l \in PortLists : l # <<>> /\ port_ids' = l
    /\ UNCHANGED detect
    /\ pc' = "port"
    /\ UNCHANGED <<at, legs, servers, verdict, todo, outcomes, dirs, code, env>>

-----------------------------------------------------------------------------
(* test_one_port.                                                          *)

Outcome(leg, v) == [at |-> at, port |-> Port, leg |-> leg, verdict |-> v]

\* Mutant: a port the panel does not know is passed over without an outcome.
PortUnresolvedSilently ==
    /\ pc = "port" /\ at <= Len(port_ids)
    /\ answers' = Append(answers, [said |-> NoPort, servers |-> {}])
    /\ at' = at + 1
    /\ UNCHANGED <<pc, cfg, legs, servers, verdict, todo, outcomes, dirs, code,
                   trouble, broken, refused>>

\* get_port fails, its answer lacks the port, or lookup_host finds no address.
PortUnresolved ==
    /\ pc = "port" /\ at <= Len(port_ids)
    /\ answers' = Append(answers, [said |-> NoPort, servers |-> {}])
    /\ outcomes' = Append(outcomes, Outcome("none", "fail"))
    /\ at' = at + 1
    /\ UNCHANGED <<pc, cfg, legs, servers, verdict, todo, dirs, code,
                   trouble, broken, refused>>

PortSkipped ==
    /\ pc = "port" /\ at <= Len(port_ids)
    /\ \E a \in {"suspended", "proxied"} :
          answers' = Append(answers, [said |-> a, servers |-> {}])
    /\ outcomes' = Append(outcomes, Outcome("none", "skipped"))
    /\ at' = at + 1
    /\ UNCHANGED <<pc, cfg, legs, servers, verdict, todo, dirs, code,
                   trouble, broken, refused>>

\* The legs a port is driven on: only "both" asks whether UDP is enabled there.
LegsOf(answer) ==
    CASE Protocol = "tcp" -> <<"tcp">>
      [] Protocol = "udp" -> <<"udp">>
      [] OTHER -> IF answer = "tcp+udp" THEN <<"tcp", "udp">> ELSE <<"tcp">>

\* The port resolves; a failing port_servers counts as no server.
PortResolved ==
    /\ pc = "port" /\ at <= Len(port_ids)
    /\ \E a \in {"tcp", "tcp+udp"}, named \in SUBSET Servers :
        /\ answers' = Append(answers, [said |-> a, servers |-> named])
        /\ legs' = LegsOf(a)
        /\ servers' = named
    /\ pc' = "leg"
    /\ UNCHANGED <<cfg, at, verdict, todo, outcomes, dirs, code,
                   trouble, broken, refused>>

\* run_tcp or run_udp, then evaluate; a leg that passed has nothing to archive.
Probe ==
    /\ pc = "leg" /\ legs # <<>>
    /\ \E m \in PossibleMetrics :
        /\ Leg = "udp" => m.disconnects = 0   \* only TCP flows count them
        /\ verdict' = Evaluate(m)
        /\ broken' = IF Broken(m) THEN broken \cup {<<at, Leg>>} ELSE broken
    /\ pc' = IF verdict' = "fail" THEN "archive" ELSE "push"
    /\ UNCHANGED <<cfg, at, legs, servers, todo, outcomes, dirs, code,
                   trouble, answers, refused>>

-----------------------------------------------------------------------------
(* archive.rs: archive_failure.  Every failure is logged and passed over.  *)

Dir == <<Port, Leg>>
Meets(n) == trouble + n <= Troubles /\ trouble' = trouble + n

\* create_dir_all; a directory of an earlier leg with the same name is reused.
MakeDir ==
    /\ pc = "archive"
    /\ \/ /\ Meets(0) /\ UNCHANGED refused
          /\ dirs' = [d \in DOMAIN dirs \cup {Dir} |-> IF d \in DOMAIN dirs THEN dirs[d] ELSE {}]
          /\ todo' = Snapshots /\ pc' = "snapshots"
       \/ /\ Meets(1) /\ refused' = refused \cup {<<Dir, "dir">>}
          /\ pc' = "push" /\ UNCHANGED <<dirs, todo>>
    /\ UNCHANGED <<cfg, at, legs, servers, verdict, outcomes, code, answers, broken>>

\* Mutant: the first artifact that cannot be had ends the archive.
FetchGivesUp ==
    /\ pc \in {"snapshots", "zips"}
    /\ \E f \in todo :
        \/ /\ Meets(0) /\ UNCHANGED refused
           /\ todo' = todo \ {f}
           /\ dirs' = [dirs EXCEPT ![Dir] = @ \cup {f}]
        \/ /\ Meets(1) /\ refused' = refused \cup {<<Dir, f>>}
           /\ todo' = {}
           /\ UNCHANGED dirs
    /\ UNCHANGED <<pc, cfg, at, legs, servers, verdict, outcomes, code, answers, broken>>

\* One artifact is fetched and written, or the panel or the disk refuses it.
Fetch ==
    /\ pc \in {"snapshots", "zips"}
    /\ \E f \in todo :
        /\ todo' = todo \ {f}
        /\ \/ /\ Meets(0) /\ UNCHANGED refused
              /\ dirs' = [dirs EXCEPT ![Dir] = @ \cup {f}]
           \/ /\ Meets(1) /\ refused' = refused \cup {<<Dir, f>>}
              /\ UNCHANGED dirs
    /\ UNCHANGED <<pc, cfg, at, legs, servers, verdict, outcomes, code, answers, broken>>

\* After the snapshots the workers' ZIPs, if they are wanted.
StartZips ==
    /\ pc = "snapshots" /\ todo = {} /\ CollectLogs
    /\ pc' = "zips" /\ todo' = servers
    /\ UNCHANGED <<cfg, at, legs, servers, verdict, outcomes, dirs, code, env>>

Archived ==
    /\ todo = {}
    /\ pc = "zips" \/ (pc = "snapshots" /\ ~CollectLogs)
    /\ pc' = "push"
    /\ UNCHANGED <<cfg, at, legs, servers, verdict, todo, outcomes, dirs, code, env>>

-----------------------------------------------------------------------------

\* The leg's outcome joins the list, whatever became of its artifacts.
Push ==
    /\ pc = "push"
    /\ outcomes' = Append(outcomes, Outcome(Leg, verdict))
    /\ legs' = Tail(legs)
    /\ verdict' = "none"
    /\ pc' = "leg"
    /\ UNCHANGED <<cfg, at, servers, todo, dirs, code, env>>

PortDone ==
    /\ pc = "leg" /\ legs = <<>>
    /\ at' = at + 1 /\ pc' = "port"
    /\ servers' = {}
    /\ UNCHANGED <<cfg, legs, verdict, todo, outcomes, dirs, code, env>>

Count(v) == Cardinality({i \in DOMAIN outcomes : outcomes[i].verdict = v})

\* Mutant: only a run in which nothing passed is a failed one.
ExitCodeAllFailed == IF Count("pass") = 0 THEN 1 ELSE 0

ExitCode == IF Count("fail") > 0 THEN 1 ELSE 0

\* RunSummary::build and exit_code; summary.json is written if the disk allows.
Summarise ==
    /\ pc = "port" /\ at > Len(port_ids)
    /\ code' = ExitCode
    /\ pc' = "exit"
    /\ UNCHANGED <<cfg, at, legs, servers, verdict, todo, outcomes, dirs, env>>

SuiteNext ==
    \/ ConfigFails \/ Configured
    \/ PortUnresolved \/ PortSkipped \/ PortResolved
    \/ Probe
    \/ MakeDir \/ Fetch \/ StartZips \/ Archived
    \/ Push \/ PortDone \/ Summarise

SuiteSpec == SuiteInit /\ [][SuiteNext]_suiteVars

-----------------------------------------------------------------------------
(* Properties.                                                             *)

\* What the panel's answer for a position makes the suite report.
Expected(i) ==
    IF answers[i].said \in {NoPort, "suspended", "proxied"}
    THEN <<[at |-> i, port |-> port_ids[i], leg |-> "none"]>>
    ELSE [k \in DOMAIN LegsOf(answers[i].said) |->
            [at |-> i, port |-> port_ids[i], leg |-> LegsOf(answers[i].said)[k]]]

\* The summary of a run that got past its configuration has one outcome for
\* each position of port_ids that was not driven and one for each leg of the
\* others, in order, whatever the panel answered and however the archiving of
\* earlier failures went (main.rs:184-187, test_one_port's early returns).
EveryLegReported ==
    pc = "exit" /\ code # 2 =>
        [j \in DOMAIN outcomes |-> [at |-> outcomes[j].at, port |-> outcomes[j].port,
                                   leg |-> outcomes[j].leg]]
          = FlattenSeq([i \in DOMAIN port_ids |-> Expected(i)])

\* A driven leg is reported as failed exactly when its path was broken in the
\* words of ci/README.md, or it could send nothing: evaluate's early return and its else-if lose nothing,
\* and what happens between the verdict and the push does not change it.
VerdictsTrue ==
    \A j \in DOMAIN outcomes :
        LET o == outcomes[j]
        IN  o.leg # "none" =>
                o.verdict = IF <<o.at, o.leg>> \in broken THEN "fail" ELSE "pass"

\* ci/README.md:43: "Exit code is non-zero if any port fails".  It is zero
\* exactly for a run in which the suite could start, every port resolved and no
\* leg was broken, and two only for a run without outcomes.
ExitCodeHonest ==
    pc = "exit" =>
        /\ code = 2 <=> outcomes = <<>>
        /\ code = 1 <=> \/ \E i \in DOMAIN answers : answers[i].said = NoPort
                       \/ broken # {}

\* archive.rs:8: "Best-effort: individual fetch failures are logged, not fatal".
\* The directory of a reported failed leg holds each snapshot, and each ZIP of
\* the port's servers when logs are wanted, but for those refused themselves.
FailuresArchived ==
    \A j \in DOMAIN outcomes :
        LET o == outcomes[j]
            dir == <<o.port, o.leg>>
            wanted == Snapshots \cup (IF CollectLogs THEN answers[o.at].servers ELSE {})
        IN  o.verdict = "fail" /\ o.leg # "none" /\ <<dir, "dir">> \notin refused =>
                /\ dir \in DOMAIN dirs
                /\ \A f \in wanted : f \in dirs[dir] \/ <<dir, f>> \in refused
=============================================================================
