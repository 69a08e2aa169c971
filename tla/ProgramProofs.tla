---------------------------- MODULE ProgramProofs ----------------------------
(***************************************************************************)
(* The outermost level of the two programs: npt-ci's suite (CiSuite), for  *)
(* any ports, switches, servers and failures, and in the last sections a   *)
(* client's users and its metrics (ClientRun), for any number of them and  *)
(* any records.  The two share nothing; each theorem is about the          *)
(* specification of one.                                                   *)
(***************************************************************************)
EXTENDS CiSuite, ClientRun, SequenceTheorems, FiniteSetTheorems,
        WellFoundedInduction, TLAPS

-----------------------------------------------------------------------------
(* The list of lists that FlattenSeq joins.                                *)

LEMMA LeastOne ==
  ASSUME NEW N \in SUBSET Nat, N # {}
  PROVE  \E m \in N : \A n \in N : m <= n
  <1> DEFINE R == {ss \in Nat \X Nat : ss[1] < ss[2]}
  <1>1. IsWellFoundedOn(R, Nat)
    BY NatLessThanWellFounded DEF OpToRel
  <1>2. \A x, y \in Nat : y < x => <<y, x>> \in R
    OBVIOUS
  <1> HIDE DEF R
  <1>3. PICK m \in N : \A y \in N : ~(<<y, m>> \in R)
    BY <1>1, WFMin
  <1>4. ASSUME NEW n \in N PROVE m <= n
    <2>1. m \in Nat /\ n \in Nat /\ <<n, m>> \notin R
      BY <1>3
    <2>2. ~(n < m)
      BY <1>2, <2>1
    <2> QED BY <2>1, <2>2
  <1> QED BY <1>3, <1>4

\* f joins the first n lists of s one by one.
Joins(f, s, n) == f = [i \in 1..n |-> IF i = 1 THEN s[i] ELSE f[i-1] \o s[i]]

LEMMA JoinsOne ==
  ASSUME NEW f, NEW s, NEW n, Joins(f, s, n)
  PROVE  \A i \in 1..n : f[i] = IF i = 1 THEN s[i] ELSE f[i-1] \o s[i]
  BY DEF Joins

LEMMA JoinsExist ==
  ASSUME NEW s, NEW n \in Nat
  PROVE  \E f : Joins(f, s, n)
  <1> DEFINE N == {k \in Nat : ~\E f : Joins(f, s, k)}
  <1>1. SUFFICES ASSUME N # {} PROVE FALSE
    OBVIOUS
  <1>2. PICK m \in N : \A k \in N : m <= k
    BY <1>1, LeastOne
  <1>3. m # 0
    <2>1. Joins([i \in 1..0 |-> <<>>], s, 0)
      BY DEF Joins
    <2> QED BY <2>1, <1>2
  <1>4. m - 1 \in Nat /\ m - 1 \notin N
    BY <1>2, <1>3
  <1>5. PICK g : Joins(g, s, m - 1)
    BY <1>4
  <1> DEFINE f == [i \in 1..m |-> IF i < m THEN g[i]
                                 ELSE IF m = 1 THEN s[1] ELSE g[m-1] \o s[m]]
  <1>6. m \in Nat \ {0}
    BY <1>2, <1>3
  <1>7. ASSUME NEW i \in 1..m
        PROVE  f[i] = IF i = 1 THEN s[i] ELSE f[i-1] \o s[i]
    <2>1. CASE i < m
      <3>1. i \in 1..(m-1)
        BY <1>6, <2>1
      <3>2. g[i] = IF i = 1 THEN s[i] ELSE g[i-1] \o s[i]
        BY <3>1, <1>5 DEF Joins
      <3>3. f[i] = g[i]
        BY <2>1
      <3>4. i # 1 => f[i-1] = g[i-1]
        BY <2>1, <1>6
      <3> QED BY <3>2, <3>3, <3>4
    <2>2. CASE i = m /\ m = 1
      BY <2>2
    <2>3. CASE i = m /\ m # 1
      <3>1. m \in 1..m /\ m - 1 \in 1..m /\ m - 1 < m /\ ~(m < m)
        BY <2>3, <1>6
      <3>2. f[m-1] = g[m-1]
        BY <3>1
      <3>3. f[m] = g[m-1] \o s[m]
        BY <3>1, <2>3
      <3> HIDE DEF f
      <3> QED BY <2>3, <3>2, <3>3
    <2> QED BY <2>1, <2>2, <2>3, <1>6
  <1>8. Joins(f, s, m)
    BY <1>7 DEF Joins
  <1> QED BY <1>8, <1>2

LEMMA JoinsAgree ==
  ASSUME NEW s, NEW t, NEW n \in Nat, NEW m \in Nat, n <= m,
         \A i \in 1..n : s[i] = t[i],
         NEW f, Joins(f, s, n), NEW g, Joins(g, t, m)
  PROVE  \A i \in 1..n : f[i] = g[i]
  <1> DEFINE N == {i \in 1..n : f[i] # g[i]}
  <1>1. SUFFICES ASSUME N # {} PROVE FALSE
    OBVIOUS
  <1>2. N \in SUBSET Nat
    OBVIOUS
  <1>3. PICK k \in N : \A i \in N : k <= i
    BY <1>1, <1>2, LeastOne
  <1>4. k \in 1..n /\ k \in 1..m /\ f[k] # g[k]
    BY <1>3
  <1>5. /\ f[k] = IF k = 1 THEN s[k] ELSE f[k-1] \o s[k]
        /\ g[k] = IF k = 1 THEN t[k] ELSE g[k-1] \o t[k]
    BY <1>4 DEF Joins
  <1>6. k # 1 => f[k-1] = g[k-1]
    BY <1>3, <1>4
  <1> QED BY <1>4, <1>5, <1>6

\* What FlattenSeq computes.
LEMMA FlattenJoins ==
  ASSUME NEW S, NEW s \in Seq(S)
  PROVE  \E f : /\ Joins(f, s, Len(s))
                /\ FlattenSeq(s) = IF Len(s) = 0 THEN <<>> ELSE f[Len(s)]
  <1> DEFINE n == Len(s)
             Is(f) == f = [i \in 1..n |-> IF i = 1 THEN s[i] ELSE f[i-1] \o s[i]]
             f == CHOOSE h : Is(h)
  <1>1. n \in Nat /\ (n = 0 => s = <<>>)
    OBVIOUS
  <1>2. \E h : Is(h)
    BY <1>1, JoinsExist DEF Joins
  <1>3. Is(f)
    <2> HIDE DEF Is
    <2> QED BY <1>2
  <1>4. FlattenSeq(s) = IF n = 0 THEN s ELSE f[n]
    BY DEF FlattenSeq
  <1>5. Joins(f, s, n)
    BY <1>3 DEF Joins
  <1> HIDE DEF f
  <1> QED BY <1>1, <1>4, <1>5

\* One list more is joined at the end.
LEMMA FlattenAppend ==
  ASSUME NEW S, NEW s \in Seq(S), NEW T, NEW x \in S, x \in Seq(T)
  PROVE  FlattenSeq(Append(s, x)) = FlattenSeq(s) \o x
  <1> DEFINE n == Len(s)
             t == Append(s, x)
  <1>1. /\ n \in Nat /\ t \in Seq(S) /\ Len(t) = n + 1
        /\ t[n+1] = x /\ \A i \in 1..n : t[i] = s[i]
    OBVIOUS
  <1>2. PICK f : /\ Joins(f, s, n)
                 /\ FlattenSeq(s) = IF n = 0 THEN <<>> ELSE f[n]
    BY FlattenJoins
  <1>3. PICK g : /\ Joins(g, t, n + 1)
                 /\ FlattenSeq(t) = g[n + 1]
    <2>1. PICK g : /\ Joins(g, t, Len(t))
                   /\ FlattenSeq(t) = IF Len(t) = 0 THEN <<>> ELSE g[Len(t)]
      BY <1>1, FlattenJoins
    <2>2. Len(t) = n + 1 /\ n + 1 # 0
      BY <1>1
    <2> HIDE DEF t
    <2> QED BY <2>1, <2>2
  <1>4. g[n + 1] = IF n = 0 THEN x ELSE g[n] \o x
    <2>1. PICK k : k = n + 1
      OBVIOUS
    <2>2. k \in 1..(n+1) /\ k - 1 = n /\ (k = 1 <=> n = 0) /\ t[k] = x
      BY <1>1, <2>1
    <2> HIDE DEF n, t
    <2>3. g[k] = IF k = 1 THEN t[k] ELSE g[k-1] \o t[k]
      <3>1. \A i \in 1..(n+1) : g[i] = IF i = 1 THEN t[i] ELSE g[i-1] \o t[i]
        BY <1>3, JoinsOne
      <3> QED BY <3>1, <2>2, Zenon
    <2> QED BY <2>1, <2>2, <2>3
  <1>5. n # 0 => f[n] = g[n]
    <2>1. n \in Nat /\ n + 1 \in Nat /\ n <= n + 1 /\ \A i \in 1..n : s[i] = t[i]
      BY <1>1
    <2>2. n # 0 => n \in 1..n
      BY <2>1
    <2> HIDE DEF t, n
    <2>3. \A i \in 1..n : f[i] = g[i]
      <3>1. Joins(f, s, n) /\ Joins(g, t, n + 1)
        BY <1>2, <1>3
      <3> QED BY <2>1, <3>1, JoinsAgree
    <2> QED BY <2>2, <2>3
  <1>6. <<>> \o x = x
    BY ConcatEmptySeq
  <1> QED BY <1>2, <1>3, <1>4, <1>5, <1>6

\* What is taken from one list's head joins the other's end.
LEMMA HeadMoves ==
  ASSUME NEW S, NEW s \in Seq(S), NEW t \in Seq(S), t # <<>>
  PROVE  Append(s, Head(t)) \o Tail(t) = s \o t
  <1>1. /\ Head(t) \in S /\ Tail(t) \in Seq(S) /\ Len(t) \in Nat \ {0}
        /\ Len(Tail(t)) = Len(t) - 1
        /\ \A i \in 1..Len(Tail(t)) : Tail(t)[i] = t[i+1]
    BY HeadTailProperties, EmptySeq
  <1>2. Append(s, Head(t)) \in Seq(S) /\ Len(Append(s, Head(t))) = Len(s) + 1
    BY <1>1
  <1> DEFINE u == Append(s, Head(t)) \o Tail(t)
             v == s \o t
  <1>3. /\ u \in Seq(S) /\ Len(u) = Len(s) + Len(t)
        /\ v \in Seq(S) /\ Len(v) = Len(s) + Len(t)
    BY <1>1, <1>2, ConcatProperties
  <1>4. ASSUME NEW i \in 1..(Len(s) + Len(t)) PROVE u[i] = v[i]
    BY <1>1, <1>2
  <1> QED BY <1>3, <1>4, SeqEqual

-----------------------------------------------------------------------------
(* The invariant.                                                          *)

Places == {"config", "port", "leg", "archive", "snapshots", "zips", "push", "exit"}
Protos == {"tcp", "udp"}
Positions == Nat \ {0}
OutcomeSet == [at : Positions, port : Nat, leg : Protos \cup {"none"},
               verdict : {"pass", "fail", "skipped"}]
AnswerSet == [said : Answers, servers : SUBSET Servers]

\* A position is between its answer and PortDone; a leg has its verdict.
Driving == pc \in {"leg", "archive", "snapshots", "zips", "push"}
Judged == pc \in {"archive", "snapshots", "zips", "push"}

Typed ==
    /\ pc \in Places
    /\ port_ids \in Seq(Nat) /\ at \in Positions
    /\ detect \in Detects
    /\ legs \in Seq(Protos)
    /\ outcomes \in Seq(OutcomeSet)
    /\ answers \in Seq(AnswerSet)
    /\ verdict \in {"none", "pass", "fail"}
    /\ code \in {NoCode, 0, 1, 2}

\* Where run_suite's loop stands, and with it the history of answers.
Course ==
    /\ Len(answers) = IF Driving THEN at ELSE at - 1
    /\ ~Driving => legs = <<>>
    /\ Judged => legs # <<>> /\ verdict # "none"
    /\ Driving => at <= Len(port_ids) /\ servers = answers[at].servers
    /\ pc = "config" => at = 1 /\ outcomes = <<>> /\ broken = {}
    /\ pc # "config" /\ code # 2 => port_ids # <<>>
    /\ pc = "port" => at <= Len(port_ids) + 1
    /\ pc # "exit" => code = NoCode
    /\ pc = "exit" /\ code # 2 => at = Len(port_ids) + 1
    /\ code = 2 => at = 1 /\ outcomes = <<>> /\ broken = {}

Names == [at : Positions, port : Nat, leg : Protos \cup {"none"}]
Reported == [j \in DOMAIN outcomes |-> [at |-> outcomes[j].at, port |-> outcomes[j].port,
                                        leg |-> outcomes[j].leg]]
Remaining == [k \in DOMAIN legs |-> [at |-> at, port |-> Port, leg |-> legs[k]]]
Plan == [i \in DOMAIN answers |-> Expected(i)]

\* What has been reported and the legs still to drive are what the answers so far
\* make the suite report.
Agenda == Reported \o Remaining = FlattenSeq(Plan)

\* The legs still to drive are distinct and have not been reported.
Unreported ==
    /\ \A k, l \in DOMAIN legs : legs[k] = legs[l] => k = l
    /\ \A j \in DOMAIN outcomes :
        /\ outcomes[j].at \in DOMAIN answers
        /\ outcomes[j].at = at =>
                Driving /\ \A k \in DOMAIN legs : legs[k] # outcomes[j].leg

\* A leg that was found broken is the one under way or has been reported.
Accused ==
    /\ Judged => verdict = IF <<at, Leg>> \in broken THEN "fail" ELSE "pass"
    /\ \A b \in broken :
        \/ \E j \in DOMAIN outcomes : b = <<outcomes[j].at, outcomes[j].leg>>
        \/ Judged /\ b = <<at, Leg>>
    /\ \A b \in broken : b[2] \in Protos

\* A position has an outcome or a leg under way, and fails without a leg exactly
\* if it did not resolve.
Answered ==
    /\ \A j \in DOMAIN outcomes : outcomes[j].leg = "none" =>
            (outcomes[j].verdict = "fail" <=> answers[outcomes[j].at].said = NoPort)
    /\ \A i \in DOMAIN answers :
        \/ \E j \in DOMAIN outcomes :
                /\ outcomes[j].at = i
                /\ answers[i].said = NoPort => outcomes[j].leg = "none"
        \/ Driving /\ i = at /\ legs # <<>> /\ answers[i].said # NoPort

\* The exit code was computed from the outcomes as they are.
Coded ==
    pc = "exit" /\ code # 2 =>
        /\ code \in {0, 1}
        /\ code = 1 <=> \E j \in DOMAIN outcomes : outcomes[j].verdict = "fail"

\* Each of the files is in the directory or was refused.
Kept(dir, files) ==
    /\ dir \in DOMAIN dirs
    /\ \A f \in files : f \in dirs[dir] \/ <<dir, f>> \in refused

\* What the leg under way has to show for itself.
Stored ==
    /\ pc = "snapshots" => Kept(Dir, Snapshots \ todo)
    /\ pc = "zips" => CollectLogs /\ Kept(Dir, (Snapshots \cup servers) \ todo)
    /\ pc = "push" /\ verdict = "fail" /\ <<Dir, "dir">> \notin refused =>
            Kept(Dir, Snapshots \cup (IF CollectLogs THEN servers ELSE {}))

Inv ==
    /\ Typed /\ Course /\ Agenda /\ Unreported
    /\ VerdictsTrue /\ Accused
    /\ Answered /\ Coded
    /\ FailuresArchived /\ Stored

-----------------------------------------------------------------------------
(* Lists of the suite.                                                     *)

LEMMA LegsOfThree ==
  \A a : LegsOf(a) \in {<<"tcp">>, <<"udp">>, <<"tcp", "udp">>}
  BY DEF LegsOf

LEMMA LegsOfFacts ==
  ASSUME NEW a
  PROVE  /\ LegsOf(a) \in Seq(Protos) /\ LegsOf(a) # <<>>
         /\ \A k, l \in DOMAIN LegsOf(a) : LegsOf(a)[k] = LegsOf(a)[l] => k = l
  <1>1. CASE LegsOf(a) = <<"tcp">>
    BY <1>1 DEF Protos
  <1>2. CASE LegsOf(a) = <<"udp">>
    BY <1>2 DEF Protos
  <1>3. CASE LegsOf(a) = <<"tcp", "udp">>
    BY <1>3 DEF Protos
  <1> QED BY <1>1, <1>2, <1>3, LegsOfThree

LEMMA IsAppend ==
  ASSUME NEW S, NEW s \in Seq(S), NEW e \in S, NEW p, p = Len(s) + 1,
         NEW t, DOMAIN t = 1..p, t = [i \in DOMAIN t |-> t[i]],
         \A i \in 1..Len(s) : t[i] = s[i],
         t[p] = e
  PROVE  t = Append(s, e)
  <1>1. Len(s) \in Nat /\ p \in Nat /\ 1..p = 1..Len(s) \cup {p}
    OBVIOUS
  <1>2. \A i \in 1..p : t[i] \in S
    BY <1>1
  <1>3. t \in Seq(S) /\ Len(t) = p
    BY <1>1, <1>2
  <1>4. /\ Append(s, e) \in Seq(S) /\ Len(Append(s, e)) = p
        /\ Append(s, e)[p] = e /\ \A i \in 1..Len(s) : Append(s, e)[i] = s[i]
    BY <1>1
  <1>5. \A i \in 1..p : t[i] = Append(s, e)[i]
    BY <1>1, <1>4
  <1> QED BY <1>3, <1>4, <1>5, SeqEqual

\* The names of the outcomes, of the legs to drive and of the plan are lists.
LEMMA NamesOfOutcomes ==
  ASSUME Typed
  PROVE  /\ Reported \in Seq(Names) /\ Len(Reported) = Len(outcomes)
         /\ DOMAIN outcomes = 1..Len(outcomes)
  <1>1. DOMAIN outcomes = 1..Len(outcomes) /\ Len(outcomes) \in Nat
    BY DEF Typed
  <1>2. ASSUME NEW j \in DOMAIN outcomes
        PROVE  [at |-> outcomes[j].at, port |-> outcomes[j].port,
                leg |-> outcomes[j].leg] \in Names
    <2>1. outcomes[j] \in OutcomeSet
      BY <1>2 DEF Typed
    <2> QED BY <2>1 DEF OutcomeSet, Names
  <1> QED BY <1>1, <1>2 DEF Reported

LEMMA NamesOfLegs ==
  ASSUME Typed, Course
  PROVE  /\ Remaining \in Seq(Names) /\ Len(Remaining) = Len(legs)
         /\ legs = <<>> => Remaining = <<>>
  <1>1. DOMAIN legs = 1..Len(legs) /\ Len(legs) \in Nat
    BY DEF Typed
  <1>2. ASSUME NEW k \in DOMAIN legs PROVE Port \in Nat
    <2>1. legs # <<>>
      BY <1>1, <1>2
    <2>2. Driving /\ at \in 1..Len(port_ids)
      BY <2>1 DEF Typed, Course, Positions
    <2> QED BY <2>2 DEF Typed, Port
  <1>3. \A k \in DOMAIN legs : legs[k] \in Protos
    BY DEF Typed
  <1>4. Remaining \in Seq(Names) /\ Len(Remaining) = Len(legs)
    BY <1>1, <1>2, <1>3 DEF Remaining, Names, Typed
  <1> QED BY <1>4, EmptySeq

LEMMA ExpectedNames ==
  ASSUME Typed, NEW i \in Positions, i \in DOMAIN port_ids, i \in DOMAIN answers
  PROVE  Expected(i) \in Seq(Names)
  <1>1. port_ids[i] \in Nat
    BY DEF Typed
  <1>2. CASE answers[i].said \in {NoPort, "suspended", "proxied"}
    BY <1>1, <1>2 DEF Expected, Names
  <1>3. CASE answers[i].said \notin {NoPort, "suspended", "proxied"}
    <2> DEFINE l == LegsOf(answers[i].said)
    <2>1. l \in Seq(Protos)
      BY LegsOfFacts
    <2>2. Expected(i) = [k \in DOMAIN l |-> [at |-> i, port |-> port_ids[i], leg |-> l[k]]]
      BY <1>3 DEF Expected
    <2> HIDE DEF l
    <2>3. DOMAIN l = 1..Len(l) /\ Len(l) \in Nat /\ \A k \in DOMAIN l : l[k] \in Protos
      BY <2>1
    <2>4. \A k \in DOMAIN l :
             [at |-> i, port |-> port_ids[i], leg |-> l[k]] \in Names
      BY <1>1, <2>3 DEF Names
    <2> QED BY <2>2, <2>3, <2>4
  <1> QED BY <1>2, <1>3

\* The positions with an answer are positions of port_ids.
LEMMA AnsweredPositions ==
  ASSUME Typed, Course
  PROVE  /\ DOMAIN answers = 1..Len(answers) /\ Len(answers) \in Nat
         /\ pc = "port" /\ at <= Len(port_ids) => DOMAIN answers \subseteq DOMAIN port_ids
         /\ Driving => at \in DOMAIN answers /\ at \in DOMAIN port_ids
  BY DEF Typed, Course, Driving, Positions

\* One answer more is one list more in the plan.
LEMMA PlanGrows ==
  ASSUME Typed, Course, pc = "port", at <= Len(port_ids),
         NEW r \in AnswerSet, answers' = Append(answers, r), UNCHANGED port_ids,
         NEW p, p = at, NEW x \in Seq(Names), Expected(p)' = x
  PROVE  FlattenSeq(Plan)' = FlattenSeq(Plan) \o x
  <1> DEFINE n == Len(answers)
  <1>1. /\ n \in Nat /\ DOMAIN answers = 1..n /\ p = n + 1
        /\ 1..n \subseteq DOMAIN port_ids /\ 1..n \subseteq Positions
    BY AnsweredPositions DEF Typed, Course, Driving, Positions
  <1>2. DOMAIN answers' = 1..p /\ \A i \in 1..n : answers'[i] = answers[i]
    BY <1>1 DEF Typed
  <1>3. \A i \in 1..n : Expected(i)' = Expected(i)
    BY <1>2 DEF Expected
  <1>4. Plan \in Seq(Seq(Names)) /\ Len(Plan) = n /\ \A i \in 1..n : Plan[i] = Expected(i)
    <2>1. \A i \in 1..n : Expected(i) \in Seq(Names)
      BY <1>1, ExpectedNames
    <2>2. Plan = [i \in 1..n |-> Expected(i)]
      BY <1>1 DEF Plan
    <2> HIDE DEF n
    <2> QED BY <1>1, <2>1, <2>2
  <1>5. Plan' = Append(Plan, x)
    <2>1. Plan' = [i \in 1..p |-> Expected(i)']
      BY <1>2 DEF Plan
    <2>2. DOMAIN Plan' = 1..p /\ Plan' = [i \in DOMAIN Plan' |-> Plan'[i]]
      BY <2>1
    <2>3. p \in 1..p /\ 1..n \subseteq 1..p
      BY <1>1
    <2>4. Plan'[p] = x /\ \A i \in 1..n : Plan'[i] = Plan[i]
      BY <1>3, <1>4, <2>1, <2>3
    <2> HIDE DEF n
    <2> QED BY <1>1, <1>4, <2>2, <2>4, IsAppend
  <1> QED BY <1>4, <1>5, FlattenAppend

\* One outcome more is one name more.
LEMMA ReportGrows ==
  ASSUME Typed, NEW o \in OutcomeSet, outcomes' = Append(outcomes, o)
  PROVE  Reported' = Append(Reported, [at |-> o.at, port |-> o.port, leg |-> o.leg])
  <1>1. PICK nm \in Names : nm = [at |-> o.at, port |-> o.port, leg |-> o.leg]
    BY DEF OutcomeSet, Names
  <1>2. Reported \in Seq(Names) /\ Len(Reported) = Len(outcomes)
    BY NamesOfOutcomes
  <1> DEFINE n == Len(outcomes)
             p == n + 1
  <1>3. /\ n \in Nat /\ DOMAIN outcomes' = 1..p /\ outcomes'[p] = o
        /\ p \in 1..p /\ 1..n \subseteq 1..p
        /\ \A j \in 1..n : outcomes'[j] = outcomes[j]
    BY DEF Typed
  <1>4. Reported' = [j \in 1..p |-> [at |-> outcomes'[j].at, port |-> outcomes'[j].port,
                                     leg |-> outcomes'[j].leg]]
    BY <1>3 DEF Reported
  <1>5. \A j \in 1..n : Reported[j] = [at |-> outcomes[j].at, port |-> outcomes[j].port,
                                       leg |-> outcomes[j].leg]
    BY NamesOfOutcomes DEF Reported
  <1>6. p = Len(Reported) + 1
    BY <1>2
  <1> HIDE DEF p
  <1>7. Reported'[p] = nm /\ \A j \in 1..n : Reported'[j] = Reported[j]
    BY <1>1, <1>3, <1>4, <1>5
  <1>8. DOMAIN Reported' = 1..p /\ Reported' = [j \in DOMAIN Reported' |-> Reported'[j]]
    BY <1>4
  <1> HIDE DEF n
  <1>9. \A j \in 1..Len(Reported) : Reported'[j] = Reported[j]
    BY <1>2, <1>7 DEF n
  <1> QED BY <1>1, <1>2, <1>6, <1>7, <1>8, <1>9, IsAppend

\* A list that grows has its old members and the new one.
LEMMA OutcomesGrow ==
  ASSUME Typed, NEW o \in OutcomeSet, outcomes' = Append(outcomes, o)
  PROVE  /\ outcomes' \in Seq(OutcomeSet)
         /\ \A j \in DOMAIN outcomes : j \in DOMAIN outcomes' /\ outcomes'[j] = outcomes[j]
         /\ \A j \in DOMAIN outcomes' :
                outcomes'[j] = o \/ (j \in DOMAIN outcomes /\ outcomes'[j] = outcomes[j])
         /\ \E j \in DOMAIN outcomes' : outcomes'[j] = o
  <1> DEFINE n == Len(outcomes)
  <1>1. /\ n \in Nat /\ DOMAIN outcomes = 1..n /\ DOMAIN outcomes' = 1..(n+1)
        /\ outcomes' \in Seq(OutcomeSet)
        /\ outcomes'[n+1] = o /\ \A j \in 1..n : outcomes'[j] = outcomes[j]
    BY DEF Typed
  <1>2. 1..(n+1) = 1..n \cup {n+1}
    BY <1>1
  <1> HIDE DEF n
  <1> QED BY <1>1, <1>2

LEMMA AnswersGrow ==
  ASSUME Typed, Course, pc = "port", NEW r \in AnswerSet, answers' = Append(answers, r)
  PROVE  /\ answers' \in Seq(AnswerSet) /\ Len(answers') = at
         /\ \A i \in DOMAIN answers : i \in DOMAIN answers' /\ answers'[i] = answers[i]
         /\ DOMAIN answers' = DOMAIN answers \cup {at}
         /\ at \notin DOMAIN answers /\ answers'[at] = r
  BY DEF Typed, Course, Driving, Positions

\* What a failed leg needs to show, named.
Filed(o) ==
    o.verdict = "fail" /\ o.leg # "none" /\ <<<<o.port, o.leg>>, "dir">> \notin refused =>
        Kept(<<o.port, o.leg>>,
             Snapshots \cup (IF CollectLogs THEN answers[o.at].servers ELSE {}))

LEMMA FiledAll == FailuresArchived <=> \A j \in DOMAIN outcomes : Filed(outcomes[j])
  BY DEF FailuresArchived, Filed, Kept

\* What is kept or refused stays so.
Grows ==
    /\ \A i \in DOMAIN answers : answers'[i] = answers[i]
    /\ \A d \in DOMAIN dirs : d \in DOMAIN dirs' /\ dirs[d] \subseteq dirs'[d]
    /\ refused \subseteq refused'

LEMMA KeptStays ==
  ASSUME Grows, NEW d, NEW F, Kept(d, F)
  PROVE  Kept(d, F)'
  BY DEF Grows, Kept

LEMMA FiledStays ==
  ASSUME Grows, NEW o, o.at \in DOMAIN answers, Filed(o)
  PROVE  Filed(o)'
  BY DEF Grows, Filed, Kept

LEMMA ArchivedStays ==
  ASSUME Inv, Grows, UNCHANGED outcomes
  PROVE  FailuresArchived'
  <1>1. \A j \in DOMAIN outcomes : Filed(outcomes[j])
    BY FiledAll DEF Inv
  <1>2. \A j \in DOMAIN outcomes : Filed(outcomes[j])'
    BY <1>1, FiledStays DEF Inv, Unreported
  <1>3. FailuresArchived' <=> \A j \in DOMAIN outcomes' : Filed(outcomes[j])'
    BY DEF FailuresArchived, Filed, Kept
  <1> QED BY <1>2, <1>3

-----------------------------------------------------------------------------
(* Nothing has been reported at first.                                     *)

LEMMA NothingPlanned ==
  Typed /\ Course /\ outcomes = <<>> /\ answers = <<>> /\ legs = <<>> => Agenda
  <1> SUFFICES ASSUME Typed, Course, outcomes = <<>>, answers = <<>>, legs = <<>>
               PROVE  Agenda
    OBVIOUS
  <1>1. Reported = <<>>
    BY NamesOfOutcomes, EmptySeq
  <1>2. Remaining = <<>>
    BY NamesOfLegs
  <1>3. Plan = <<>>
    BY DEF Plan
  <1>4. FlattenSeq(<<>>) = <<>>
    BY DEF FlattenSeq
  <1>5. <<>> \o <<>> = <<>>
    BY ConcatEmptySeq, EmptySeq
  <1> QED BY <1>1, <1>2, <1>3, <1>4, <1>5 DEF Agenda

LEMMA SuiteInvInit == SuiteInit => Inv
  <1> SUFFICES ASSUME SuiteInit PROVE Inv
    OBVIOUS
  <1>1. Typed
    BY DEF SuiteInit, Typed, Places, Positions, NoCode
  <1>2. Course
    BY DEF SuiteInit, Course, Driving, Judged, NoCode
  <1>3. Agenda
    BY <1>1, <1>2, NothingPlanned DEF SuiteInit
  <1>4. DOMAIN outcomes = {} /\ DOMAIN answers = {} /\ DOMAIN legs = {}
    BY DEF SuiteInit
  <1>5. Unreported /\ VerdictsTrue /\ Accused /\ Answered
    BY <1>4 DEF SuiteInit, Unreported, VerdictsTrue, Accused, Judged, Answered
  <1>6. Coded /\ Stored /\ FailuresArchived
    BY <1>4 DEF SuiteInit, Coded, Stored, FailuresArchived
  <1> QED BY <1>1, <1>2, <1>3, <1>5, <1>6 DEF Inv

\* With an empty configuration nothing has been answered.
LEMMA NothingYet ==
  ASSUME Inv, pc = "config"
  PROVE  /\ at = 1 /\ outcomes = <<>> /\ answers = <<>> /\ legs = <<>> /\ broken = {}
         /\ code = NoCode
  BY EmptySeq DEF Inv, Typed, Course, Driving

LEMMA NothingStays ==
  ASSUME Inv, pc = "config", Typed', Course',
         pc' \in {"port", "exit"}, pc' = "exit" => code' = 2,
         UNCHANGED <<at, legs, outcomes, answers, broken>>
  PROVE  Inv'
  <1>1. at = 1 /\ outcomes = <<>> /\ answers = <<>> /\ legs = <<>> /\ broken = {}
    BY NothingYet
  <1>2. Agenda'
    <2>1. outcomes' = <<>> /\ answers' = <<>> /\ legs' = <<>>
      BY <1>1
    <2>2. (Typed /\ Course /\ outcomes = <<>> /\ answers = <<>> /\ legs = <<>> => Agenda)'
      BY NothingPlanned, PTL
    <2> QED BY <2>1, <2>2
  <1>3. DOMAIN outcomes' = {} /\ DOMAIN answers' = {} /\ DOMAIN legs' = {} /\ broken' = {}
    BY <1>1
  <1>4. Unreported' /\ VerdictsTrue' /\ Accused' /\ Answered'
    BY <1>3 DEF Unreported, VerdictsTrue, Accused, Judged, Answered
  <1>5. Coded' /\ Stored' /\ FailuresArchived'
    BY <1>3 DEF Coded, Stored, FailuresArchived
  <1> QED BY <1>2, <1>4, <1>5 DEF Inv

LEMMA ConfigFailsStep == ASSUME Inv, ConfigFails PROVE Inv'
  <1>1. /\ pc = "config" /\ pc' = "exit" /\ code' = 2
        /\ UNCHANGED <<port_ids, detect, at, legs, servers, verdict, outcomes,
                       answers, broken>>
    BY DEF ConfigFails, cfg, env
  <1>2. Typed'
    BY <1>1 DEF Inv, Typed, Places
  <1>3. Course'
    BY <1>1, NothingYet DEF Inv, Course, Driving, Judged
  <1> QED BY <1>1, <1>2, <1>3, NothingStays

LEMMA ConfiguredStep == ASSUME Inv, Configured PROVE Inv'
  <1>1. /\ pc = "config" /\ pc' = "port" /\ port_ids' \in PortLists /\ port_ids' # <<>>
        /\ UNCHANGED <<detect, at, legs, servers, verdict, outcomes, code,
                       answers, broken>>
    BY DEF Configured, env
  <1>2. Typed'
    BY <1>1, ListsAssumption DEF Inv, Typed, Places
  <1>3. Course'
    BY <1>1, NothingYet DEF Inv, Course, Driving, Judged, NoCode
  <1> QED BY <1>1, <1>2, <1>3, NothingStays

LEMMA RemainingNames == Typed /\ Course => Remaining \in Seq(Names)
  BY NamesOfLegs

LEMMA NothingRemains == Typed /\ Course /\ legs = <<>> => Remaining = <<>>
  BY NamesOfLegs

LEMMA ArchivedGrows ==
  ASSUME Inv, Grows, NEW o, Filed(o)',
         \A j \in DOMAIN outcomes' :
             outcomes'[j] = o \/ (j \in DOMAIN outcomes /\ outcomes'[j] = outcomes[j])
  PROVE  FailuresArchived'
  <1>1. \A j \in DOMAIN outcomes : outcomes[j].at \in DOMAIN answers /\ Filed(outcomes[j])
    BY FiledAll DEF Inv, Unreported
  <1>2. ASSUME NEW p, p.at \in DOMAIN answers, Filed(p) PROVE Filed(p)'
    BY <1>2, FiledStays
  <1>3. ASSUME NEW j \in DOMAIN outcomes' PROVE Filed(outcomes[j])'
    <2>1. PICK p : p = outcomes'[j]
      OBVIOUS
    <2>2. p = o \/ (p.at \in DOMAIN answers /\ Filed(p))
      BY <1>1, <1>3, <2>1
    <2>3. Filed(p)'
      BY <1>2, <2>2
    <2> QED BY <2>1, <2>3 DEF Filed
  <1> QED BY <1>3 DEF FailuresArchived, Filed, Kept

-----------------------------------------------------------------------------
(* A position's answer.                                                    *)

\* A port that is not driven: its answer and its outcome are added together.
LEMMA PassOver ==
  ASSUME Inv, pc = "port", at <= Len(port_ids),
         NEW a \in {NoPort, "suspended", "proxied"},
         NEW v, v = IF a = NoPort THEN "fail" ELSE "skipped",
         answers' = Append(answers, [said |-> a, servers |-> {}]),
         outcomes' = Append(outcomes, Outcome("none", v)),
         at' = at + 1,
         UNCHANGED <<pc, port_ids, detect, legs, servers, verdict, todo, dirs, code,
                     broken, refused>>
  PROVE  Inv'
  <1> DEFINE r == [said |-> a, servers |-> {}]
             nm == [at |-> at, port |-> Port, leg |-> "none"]
  <1>1. Typed /\ Course /\ Agenda /\ Unreported /\ Accused /\ Answered
    BY DEF Inv
  <1>0. PICK o : o = Outcome("none", v)
    OBVIOUS
  <1>2. r \in AnswerSet
    BY DEF AnswerSet, Answers
  <1>3. at \in Positions /\ at \in DOMAIN port_ids /\ Port \in Nat
    BY <1>1 DEF Typed, Positions, Port
  <1>4. /\ o \in OutcomeSet /\ o.at = at /\ o.port = Port /\ o.leg = "none"
        /\ o.verdict = v
    BY <1>0, <1>3 DEF Outcome, OutcomeSet
  <1>5. /\ answers' \in Seq(AnswerSet) /\ Len(answers') = at
        /\ \A i \in DOMAIN answers : i \in DOMAIN answers' /\ answers'[i] = answers[i]
        /\ DOMAIN answers' = DOMAIN answers \cup {at}
        /\ at \notin DOMAIN answers /\ answers'[at] = r
    <2> HIDE DEF r
    <2> QED BY <1>1, <1>2, AnswersGrow DEF r
  <1>6. /\ outcomes' \in Seq(OutcomeSet)
        /\ \A j \in DOMAIN outcomes : j \in DOMAIN outcomes' /\ outcomes'[j] = outcomes[j]
        /\ \A j \in DOMAIN outcomes' :
               outcomes'[j] = o \/ (j \in DOMAIN outcomes /\ outcomes'[j] = outcomes[j])
        /\ \E j \in DOMAIN outcomes' : outcomes'[j] = o
    BY <1>0, <1>1, <1>4, OutcomesGrow
  <1>7. legs = <<>> /\ DOMAIN legs = {} /\ ~Driving /\ ~Driving' /\ ~Judged /\ ~Judged'
    BY <1>1 DEF Course, Driving, Judged
  <1> HIDE DEF r
  <1>8. Typed'
    BY <1>1, <1>5, <1>6 DEF Typed, Positions
  <1>9. Course'
    BY <1>1, <1>5, <1>7 DEF Course, Typed, Positions, NoCode
  <1>10. Agenda'
    <2>1. nm \in Names
      BY <1>3 DEF Names
    <2>2. Reported' = Append(Reported, nm)
      <3>1. Reported' = Append(Reported, [at |-> o.at, port |-> o.port, leg |-> o.leg])
        BY <1>0, <1>1, <1>4, ReportGrows
      <3> QED BY <3>1, <1>4
    <2>3. FlattenSeq(Plan)' = FlattenSeq(Plan) \o <<nm>>
      <3>1. PICK p : p = at
        OBVIOUS
      <3>2. Expected(p)' = <<nm>>
        <4>1. answers'[p].said = a /\ port_ids'[p] = Port
          BY <1>5, <3>1 DEF r, Port
        <4> QED BY <4>1, <3>1 DEF Expected
      <3>3. <<nm>> \in Seq(Names)
        BY <2>1
      <3> HIDE DEF nm
      <3> QED BY <1>1, <1>2, <3>1, <3>2, <3>3, PlanGrows DEF r
    <2>4. Remaining = <<>> /\ Remaining' = <<>>
      <3>1. (Typed /\ Course /\ legs = <<>> => Remaining = <<>>)'
        BY NothingRemains, PTL
      <3> QED BY <1>1, <1>7, <1>8, <1>9, <3>1, NamesOfLegs
    <2>5. Reported \in Seq(Names)
      BY <1>1, NamesOfOutcomes
    <2> HIDE DEF nm
    <2>6. Append(Reported, nm) \o <<>> = (Reported \o <<>>) \o <<nm>>
      BY <2>1, <2>5, ConcatEmptySeq, AppendIsConcat
    <2> QED BY <1>1, <2>2, <2>3, <2>4, <2>6 DEF Agenda
  <1>11. Unreported'
    <2>1. \A j \in DOMAIN outcomes : outcomes[j].at \in DOMAIN answers
      BY <1>1 DEF Unreported
    <2>2. DOMAIN answers' = 1..at /\ at \in Nat
      BY <1>3, <1>5 DEF Positions
    <2>3. \A j \in DOMAIN outcomes' : outcomes'[j].at \in DOMAIN answers'
      BY <2>1, <1>4, <1>5, <1>6
    <2>4. \A j \in DOMAIN outcomes' : outcomes'[j].at # at'
      BY <2>2, <2>3
    <2> QED BY <1>7, <2>3, <2>4 DEF Unreported
  <1>12. VerdictsTrue'
    BY <1>4, <1>6 DEF Inv, VerdictsTrue
  <1>13. Accused'
    BY <1>1, <1>6, <1>7 DEF Accused
  <1>14. Answered'
    <2>1. answers'[at].said = a
      BY <1>5 DEF r
    <2>2. \A j \in DOMAIN outcomes : outcomes[j].at \in DOMAIN answers
      BY <1>1 DEF Unreported
    <2>3. \A j \in DOMAIN outcomes' : outcomes'[j].leg = "none" =>
             (outcomes'[j].verdict = "fail" <=> answers'[outcomes'[j].at].said = NoPort)
      <3> SUFFICES ASSUME NEW j \in DOMAIN outcomes', outcomes'[j].leg = "none"
                   PROVE  outcomes'[j].verdict = "fail"
                            <=> answers'[outcomes'[j].at].said = NoPort
        OBVIOUS
      <3>1. CASE outcomes'[j] = o
        BY <3>1, <2>1, <1>4
      <3>2. CASE j \in DOMAIN outcomes /\ outcomes'[j] = outcomes[j]
        BY <3>2, <2>2, <1>1, <1>5 DEF Answered
      <3> QED BY <3>1, <3>2, <1>6
    <2>4. ASSUME NEW i \in DOMAIN answers'
          PROVE  \E j \in DOMAIN outcomes' :
                    /\ outcomes'[j].at = i
                    /\ answers'[i].said = NoPort => outcomes'[j].leg = "none"
      <3>1. CASE i = at
        BY <3>1, <1>4, <1>6
      <3>2. CASE i \in DOMAIN answers
        BY <3>2, <1>1, <1>5, <1>6, <1>7 DEF Answered
      <3> QED BY <3>1, <3>2, <1>5
    <2> QED BY <2>3, <2>4 DEF Answered
  <1>15. Coded' /\ Stored'
    BY DEF Coded, Stored
  <1>16. FailuresArchived'
    <2>1. Grows
      BY <1>5 DEF Grows
    <2>2. Filed(o)'
      BY <1>4 DEF Filed
    <2> QED BY <1>6, <2>1, <2>2, ArchivedGrows
  <1> QED BY <1>8, <1>9, <1>10, <1>11, <1>12, <1>13, <1>14, <1>15, <1>16 DEF Inv

LEMMA PortUnresolvedStep == ASSUME Inv, PortUnresolved PROVE Inv'
  <1>1. NoPort \in {NoPort, "suspended", "proxied"}
    OBVIOUS
  <1> QED BY <1>1, PassOver DEF PortUnresolved, cfg

LEMMA PortSkippedStep == ASSUME Inv, PortSkipped PROVE Inv'
  <1>1. PICK a \in {"suspended", "proxied"} :
            answers' = Append(answers, [said |-> a, servers |-> {}])
    BY DEF PortSkipped
  <1>2. a \in {NoPort, "suspended", "proxied"} /\ a # NoPort
    BY DEF NoPort
  <1> QED BY <1>1, <1>2, PassOver DEF PortSkipped, cfg

\* A port that is driven: its legs are what the plan gains.
LEMMA PortResolvedStep == ASSUME Inv, PortResolved PROVE Inv'
  <1>1. PICK a \in {"tcp", "tcp+udp"}, named \in SUBSET Servers :
            /\ answers' = Append(answers, [said |-> a, servers |-> named])
            /\ legs' = LegsOf(a) /\ servers' = named
    BY DEF PortResolved
  <1>2. /\ pc = "port" /\ pc' = "leg" /\ at <= Len(port_ids)
        /\ UNCHANGED <<port_ids, detect, at, verdict, todo, outcomes, dirs, code,
                       broken, refused>>
    BY DEF PortResolved, cfg
  <1>3. PICK r : r = [said |-> a, servers |-> named]
    OBVIOUS
  <1>4. r \in AnswerSet /\ r.said = a /\ r.servers = named /\ a # NoPort
    BY <1>3 DEF AnswerSet, Answers, NoPort
  <1>5. Typed /\ Course /\ Agenda /\ Unreported /\ Accused /\ Answered
    BY DEF Inv
  <1>6. at \in Positions /\ at \in DOMAIN port_ids
    BY <1>2, <1>5 DEF Typed, Positions
  <1>7. /\ answers' \in Seq(AnswerSet) /\ Len(answers') = at
        /\ \A i \in DOMAIN answers : i \in DOMAIN answers' /\ answers'[i] = answers[i]
        /\ DOMAIN answers' = DOMAIN answers \cup {at}
        /\ at \notin DOMAIN answers /\ answers'[at] = r
    BY <1>1, <1>2, <1>3, <1>4, <1>5, AnswersGrow
  <1>8. /\ legs' \in Seq(Protos) /\ legs' # <<>>
        /\ \A k, l \in DOMAIN legs' : legs'[k] = legs'[l] => k = l
    BY <1>1, LegsOfFacts
  <1>9. legs = <<>> /\ ~Judged /\ ~Judged' /\ Driving' /\ ~Driving
    BY <1>2, <1>5 DEF Course, Driving, Judged
  <1>10. Typed'
    BY <1>2, <1>5, <1>7, <1>8 DEF Typed, Places
  <1>11. Course'
    BY <1>1, <1>2, <1>4, <1>5, <1>7, <1>9 DEF Course
  <1>12. Agenda'
    <2>1. PICK p : p = at
      OBVIOUS
    <2>2. PICK x : x = Expected(p)'
      OBVIOUS
    <2>3. x \in Seq(Names) /\ x = Remaining'
      <3>1. answers'[p].said = a /\ a \notin {NoPort, "suspended", "proxied"}
        BY <1>4, <1>7, <2>1 DEF NoPort
      <3>2. x = [k \in DOMAIN legs' |->
                    [at |-> p, port |-> port_ids[p], leg |-> legs'[k]]]
        BY <1>1, <1>2, <2>2, <3>1 DEF Expected
      <3>3. Remaining' = x
        BY <1>2, <2>1, <3>2 DEF Remaining, Port
      <3>4. (Typed /\ Course => Remaining \in Seq(Names))'
        BY RemainingNames, PTL
      <3> QED BY <1>10, <1>11, <3>3, <3>4
    <2>4. FlattenSeq(Plan)' = FlattenSeq(Plan) \o x
      BY <1>1, <1>2, <1>3, <1>4, <1>5, <2>1, <2>2, <2>3, PlanGrows
    <2>5. Remaining = <<>> /\ Reported \in Seq(Names) /\ Reported' = Reported
      BY <1>2, <1>5, <1>9, NothingRemains, NamesOfOutcomes DEF Reported
    <2>6. Reported \o <<>> = Reported
      BY <2>5, ConcatEmptySeq
    <2> QED BY <1>5, <2>3, <2>4, <2>5, <2>6 DEF Agenda
  <1>13. Unreported'
    BY <1>2, <1>5, <1>7, <1>8, <1>9 DEF Unreported
  <1>14. VerdictsTrue' /\ Accused'
    BY <1>2, <1>5, <1>9 DEF Inv, VerdictsTrue, Accused
  <1>15. Answered'
    <2>1. \A j \in DOMAIN outcomes : answers'[outcomes[j].at] = answers[outcomes[j].at]
      BY <1>5, <1>7 DEF Unreported
    <2>2. ASSUME NEW i \in DOMAIN answers'
          PROVE  \/ \E j \in DOMAIN outcomes :
                        /\ outcomes[j].at = i
                        /\ answers'[i].said = NoPort => outcomes[j].leg = "none"
                 \/ i = at /\ answers'[i].said # NoPort
      <3>1. CASE i = at
        BY <3>1, <1>4, <1>7
      <3>2. CASE i \in DOMAIN answers
        BY <3>2, <1>5, <1>7, <1>9 DEF Answered
      <3> QED BY <3>1, <3>2, <1>7
    <2> QED BY <1>2, <1>5, <1>8, <1>9, <2>1, <2>2 DEF Answered
  <1>16. Coded' /\ Stored'
    BY <1>2 DEF Coded, Stored
  <1>17. FailuresArchived'
    BY <1>2, <1>7, ArchivedStays DEF Grows
  <1> QED BY <1>10, <1>11, <1>12, <1>13, <1>14, <1>15, <1>16, <1>17 DEF Inv

-----------------------------------------------------------------------------
(* A leg.                                                                  *)

\* evaluate finds what the documentation calls broken, and nothing else.
LEMMA EvaluateBroken ==
  ASSUME NEW m \in PossibleMetrics, detect \in Detects
  PROVE  Evaluate(m) = IF Broken(m) THEN "fail" ELSE "pass"
  <1>1. /\ m.connected \in Int /\ m.connect_failed = Flows - m.connected
        /\ m.connected \in 0..Flows
    BY FlowsAssumption DEF PossibleMetrics
  <1>2. detect.max_fail \in Int /\ Flows \in Int
    BY DetectsAssumption, FlowsAssumption
  <1>3. TooManyFailed(m) <=> Flows * detect.max_fail < 100 * (Flows - m.connected)
    <2>1. detect.max_fail * Flows = Flows * detect.max_fail
      BY <1>2
    <2> QED BY <1>1, <1>2, <2>1 DEF TooManyFailed
  <1>4. m.no_return = 0 \/ m.no_return > 0
    BY DEF PossibleMetrics
  <1>5. CASE m.connected = 0
    <2>1. Broken(m) /\ Reasons(m) # {}
      BY <1>5 DEF Broken, Reasons
    <2> QED BY <2>1 DEF Evaluate
  <1>6. CASE m.connected # 0
    <2>1. Reasons(m) # {} <=> Broken(m)
      <3>1. ASSUME Broken(m) PROVE Reasons(m) # {}
        <4>1. CASE detect.stall /\ m.stalled
          <5>1. "stall" \in Reasons(m)
            BY <4>1, <1>6 DEF Reasons
          <5> QED BY <5>1
        <4>2. CASE ~m.sent
          <5>1. "nothing sent" \in Reasons(m)
            BY <4>2, <1>6 DEF Reasons
          <5> QED BY <5>1
        <4>3. CASE m.sent /\ detect.no_return /\ m.no_return > 0
          <5>1. "no return" \in Reasons(m)
            BY <4>3, <1>6 DEF Reasons
          <5> QED BY <5>1
        <4>4. CASE detect.disconnect /\ m.disconnects > 0
          <5>1. "disconnect" \in Reasons(m)
            BY <4>4, <1>6 DEF Reasons
          <5> QED BY <5>1
        <4>5. CASE Flows * detect.max_fail < 100 * (Flows - m.connected)
          <5>1. "ratio" \in Reasons(m)
            BY <4>5, <1>3, <1>6 DEF Reasons
          <5> QED BY <5>1
        <4>6. CASE detect.floor /\ m.slow
          <5>1. "floor" \in Reasons(m)
            BY <4>6, <1>6 DEF Reasons
          <5> QED BY <5>1
        <4>7. CASE detect.ceiling /\ m.late
          <5>1. "ceiling" \in Reasons(m)
            BY <4>7, <1>6 DEF Reasons
          <5> QED BY <5>1
        <4> QED BY <3>1, <4>1, <4>2, <4>3, <4>4, <4>5, <4>6, <4>7, <1>6 DEF Broken
      <3>2. ASSUME NEW r \in Reasons(m) PROVE Broken(m)
        BY <1>3, <1>6 DEF Reasons, Broken
      <3> QED BY <3>1, <3>2
    <2> QED BY <2>1 DEF Evaluate
  <1> QED BY <1>5, <1>6

\* The first of the legs still to drive.
LEMMA LegFacts ==
  ASSUME Inv, legs # <<>>
  PROVE  /\ Leg \in Protos /\ 1 \in DOMAIN legs /\ legs[1] = Leg
         /\ \A j \in DOMAIN outcomes : <<outcomes[j].at, outcomes[j].leg>> # <<at, Leg>>
  <1>1. legs \in Seq(Protos)
    BY DEF Inv, Typed
  <1>2. 1 \in DOMAIN legs /\ legs[1] = Leg
    BY <1>1 DEF Leg
  <1>3. Leg \in Protos
    BY <1>1, <1>2
  <1> QED BY <1>2, <1>3 DEF Inv, Unreported

LEMMA ProbeStep == ASSUME Inv, Probe PROVE Inv'
  <1>1. PICK m \in PossibleMetrics :
            /\ verdict' = Evaluate(m)
            /\ broken' = IF Broken(m) THEN broken \cup {<<at, Leg>>} ELSE broken
    BY DEF Probe
  <1>2. /\ pc = "leg" /\ legs # <<>>
        /\ pc' = IF verdict' = "fail" THEN "archive" ELSE "push"
        /\ UNCHANGED <<port_ids, detect, at, legs, servers, todo, outcomes, dirs,
                       code, answers, refused>>
    BY DEF Probe, cfg
  <1>3. Typed /\ Course /\ Unreported /\ Accused
    BY DEF Inv
  <1>4. verdict' = IF Broken(m) THEN "fail" ELSE "pass"
    BY <1>1, <1>3, EvaluateBroken DEF Typed
  <1>5. Driving /\ ~Judged /\ Driving' /\ Judged'
    BY <1>2 DEF Driving, Judged
  <1>6. Leg' = Leg
    BY <1>2 DEF Leg
  <1>7. /\ Leg \in Protos
        /\ \A j \in DOMAIN outcomes : <<outcomes[j].at, outcomes[j].leg>> # <<at, Leg>>
    BY <1>2, LegFacts
  <1>8. <<at, Leg>> \notin broken
    BY <1>3, <1>5, <1>7 DEF Accused
  <1>9. Typed'
    BY <1>2, <1>3, <1>4 DEF Typed, Places
  <1>10. Course'
    BY <1>2, <1>3, <1>4, <1>5 DEF Course, NoCode
  <1>11. Agenda'
    BY <1>2 DEF Inv, Agenda, Reported, Remaining, Plan, Port, Expected
  <1>12. Unreported'
    BY <1>2, <1>3, <1>5 DEF Unreported
  <1>13. VerdictsTrue'
    <2>1. VerdictsTrue
      BY DEF Inv
    <2>2. \A j \in DOMAIN outcomes : <<outcomes[j].at, outcomes[j].leg>> \in broken'
                                  <=> <<outcomes[j].at, outcomes[j].leg>> \in broken
      BY <1>1, <1>7
    <2> QED BY <1>2, <2>1, <2>2 DEF VerdictsTrue
  <1>14. Accused'
    <2>1. verdict' = IF <<at, Leg>> \in broken' THEN "fail" ELSE "pass"
      BY <1>1, <1>4, <1>8
    <2>2. ASSUME NEW b \in broken'
          PROVE  /\ \/ \E j \in DOMAIN outcomes : b = <<outcomes[j].at, outcomes[j].leg>>
                    \/ b = <<at, Leg>>
                 /\ b[2] \in Protos
      <3>1. b \in broken \/ b = <<at, Leg>>
        BY <1>1
      <3> QED BY <3>1, <1>3, <1>5, <1>7 DEF Accused
    <2> QED BY <1>2, <1>5, <1>6, <2>1, <2>2 DEF Accused
  <1>15. Answered'
    BY <1>2, <1>5 DEF Inv, Answered
  <1>16. Coded' /\ Stored'
    BY <1>2 DEF Coded, Stored
  <1>17. FailuresArchived'
    BY <1>2, ArchivedStays DEF Grows
  <1> QED BY <1>9, <1>10, <1>11, <1>12, <1>13, <1>14, <1>15, <1>16, <1>17 DEF Inv

-----------------------------------------------------------------------------
(* The archive of a leg that failed.                                       *)

\* A step of the archive, or none, disturbs only what is stored.
LEMMA ArchiveQuiet ==
  ASSUME Inv, UNCHANGED <<port_ids, detect, at, legs, servers, verdict, outcomes,
                          code, answers, broken>>,
         pc' = pc \/ (Judged /\ pc' \in {"archive", "snapshots", "zips", "push"}),
         Grows, Stored'
  PROVE  Inv'
  <1>1. (Driving' <=> Driving) /\ (Judged' <=> Judged)
    BY DEF Driving, Judged
  <1>2. pc' = pc \/ (pc \notin {"config", "exit"} /\ pc' \notin {"config", "exit"})
    BY DEF Judged
  <1>3. Typed'
    BY DEF Inv, Typed, Places
  <1>4. Course'
    BY <1>1, <1>2 DEF Inv, Course
  <1>5. Agenda'
    BY DEF Inv, Agenda, Reported, Remaining, Plan, Port, Expected
  <1>6. Unreported' /\ VerdictsTrue'
    BY <1>1 DEF Inv, Unreported, VerdictsTrue
  <1>7. Accused'
    BY <1>1 DEF Inv, Accused, Leg
  <1>8. Answered'
    BY <1>1 DEF Inv, Answered
  <1>9. Coded'
    BY <1>2 DEF Inv, Coded
  <1>10. FailuresArchived'
    BY ArchivedStays
  <1> QED BY <1>3, <1>4, <1>5, <1>6, <1>7, <1>8, <1>9, <1>10 DEF Inv

LEMMA MakeDirStep == ASSUME Inv, MakeDir PROVE Inv'
  <1>1. /\ pc = "archive" /\ Judged
        /\ UNCHANGED <<port_ids, detect, at, legs, servers, verdict, outcomes, code,
                       answers, broken>>
    BY DEF MakeDir, cfg, Judged
  <1>2. Dir' = Dir
    BY <1>1 DEF Dir, Port, Leg
  <1>3. CASE /\ dirs' = [d \in DOMAIN dirs \cup {Dir} |->
                             IF d \in DOMAIN dirs THEN dirs[d] ELSE {}]
             /\ todo' = Snapshots /\ pc' = "snapshots" /\ UNCHANGED refused
    <2>1. Grows
      BY <1>1, <1>3 DEF Grows
    <2>2. Stored'
      BY <1>2, <1>3 DEF Stored, Kept
    <2> QED BY <1>1, <1>3, <2>1, <2>2, ArchiveQuiet
  <1>4. CASE /\ refused' = refused \cup {<<Dir, "dir">>}
             /\ pc' = "push" /\ UNCHANGED <<dirs, todo>>
    <2>1. Grows
      BY <1>1, <1>4 DEF Grows
    <2>2. Stored'
      BY <1>2, <1>4 DEF Stored
    <2> QED BY <1>1, <1>4, <2>1, <2>2, ArchiveQuiet
  <1> QED BY <1>3, <1>4 DEF MakeDir

LEMMA FetchStep == ASSUME Inv, Fetch PROVE Inv'
  <1>1. /\ pc \in {"snapshots", "zips"} /\ Judged
        /\ UNCHANGED <<pc, port_ids, detect, at, legs, servers, verdict, outcomes,
                       code, answers, broken>>
    BY DEF Fetch, cfg, Judged
  <1>2. PICK f \in todo :
            /\ todo' = todo \ {f}
            /\ \/ UNCHANGED refused /\ dirs' = [dirs EXCEPT ![Dir] = @ \cup {f}]
               \/ refused' = refused \cup {<<Dir, f>>} /\ UNCHANGED dirs
    BY DEF Fetch
  <1>3. Dir' = Dir
    BY <1>1 DEF Dir, Port, Leg
  <1>4. PICK d : d = Dir
    OBVIOUS
  <1>5. Grows
    BY <1>1, <1>2 DEF Grows
  <1> DEFINE KeptNow(F) == /\ d \in DOMAIN dirs'
                           /\ \A g \in F \ todo' : g \in dirs'[d] \/ <<d, g>> \in refused'
  <1>6. ASSUME NEW F, Kept(d, F \ todo) PROVE KeptNow(F)
    <2>1. d \in DOMAIN dirs' /\ dirs[d] \subseteq dirs'[d] /\ refused \subseteq refused'
      BY <1>5, <1>6 DEF Grows, Kept
    <2>2. f \in dirs'[d] \/ <<d, f>> \in refused'
      BY <1>2, <1>4, <1>6 DEF Kept
    <2>3. ASSUME NEW g \in F \ todo', g # f PROVE g \in dirs'[d] \/ <<d, g>> \in refused'
      <3>1. g \in F \ todo
        BY <2>3, <1>2
      <3> QED BY <3>1, <2>1, <1>6 DEF Kept
    <2> QED BY <2>1, <2>2, <2>3
  <1>7. pc = "snapshots" => KeptNow(Snapshots)
    <2> HIDE DEF KeptNow
    <2> QED BY <1>4, <1>6 DEF Inv, Stored
  <1>8. pc = "zips" => CollectLogs /\ KeptNow(Snapshots \cup servers)
    <2> HIDE DEF KeptNow
    <2> QED BY <1>4, <1>6 DEF Inv, Stored
  <1>9. Stored'
    BY <1>1, <1>3, <1>4, <1>7, <1>8 DEF Stored, Kept
  <1> QED BY <1>1, <1>5, <1>9, ArchiveQuiet

LEMMA StartZipsStep == ASSUME Inv, StartZips PROVE Inv'
  <1>1. /\ pc = "snapshots" /\ Judged /\ todo = {} /\ CollectLogs
        /\ pc' = "zips" /\ todo' = servers
        /\ UNCHANGED <<port_ids, detect, at, legs, servers, verdict, outcomes, dirs,
                       code, answers, broken, refused>>
    BY DEF StartZips, cfg, env, Judged
  <1>2. Grows
    BY <1>1 DEF Grows
  <1>3. Dir' = Dir
    BY <1>1 DEF Dir, Port, Leg
  <1>4. Stored'
    BY <1>1, <1>3 DEF Inv, Stored, Kept
  <1> QED BY <1>1, <1>2, <1>4, ArchiveQuiet

LEMMA ArchivedStep == ASSUME Inv, Archived PROVE Inv'
  <1>1. /\ pc = "zips" \/ (pc = "snapshots" /\ ~CollectLogs)
        /\ Judged /\ todo = {} /\ pc' = "push"
        /\ UNCHANGED <<port_ids, detect, at, legs, servers, verdict, outcomes, dirs,
                       code, answers, broken, refused>>
    BY DEF Archived, cfg, env, Judged
  <1>2. Grows
    BY <1>1 DEF Grows
  <1>3. Dir' = Dir
    BY <1>1 DEF Dir, Port, Leg
  <1>4. Stored'
    BY <1>1, <1>3 DEF Inv, Stored, Kept
  <1> QED BY <1>1, <1>2, <1>4, ArchiveQuiet

-----------------------------------------------------------------------------
(* The outcome, the port's end and the run's.                              *)

\* The leg's outcome takes its name from the head of the legs still to drive.
LEMMA PushStep == ASSUME Inv, Push PROVE Inv'
  <1>1. /\ pc = "push" /\ pc' = "leg" /\ verdict' = "none" /\ legs' = Tail(legs)
        /\ outcomes' = Append(outcomes, Outcome(Leg, verdict))
        /\ UNCHANGED <<port_ids, detect, at, servers, todo, dirs, code, answers,
                       broken, refused>>
    BY DEF Push, cfg, env
  <1>2. Typed /\ Course /\ Agenda /\ Unreported /\ Accused /\ Answered
    BY DEF Inv
  <1>3. Driving /\ Judged /\ Driving' /\ ~Judged'
    BY <1>1 DEF Driving, Judged
  <1>4. legs # <<>> /\ verdict \in {"pass", "fail"}
    BY <1>2, <1>3 DEF Typed, Course
  <1>5. /\ Leg \in Protos /\ 1 \in DOMAIN legs /\ legs[1] = Leg
        /\ \A j \in DOMAIN outcomes : <<outcomes[j].at, outcomes[j].leg>> # <<at, Leg>>
    BY <1>4, LegFacts
  <1>6. at \in Positions /\ at \in DOMAIN port_ids /\ Port \in Nat /\ at \in DOMAIN answers
    BY <1>2, <1>3 DEF Typed, Course, Positions, Port
  <1>7. PICK o : o = Outcome(Leg, verdict)
    OBVIOUS
  <1>8. /\ o \in OutcomeSet /\ o.at = at /\ o.port = Port /\ o.leg = Leg
        /\ o.verdict = verdict
    BY <1>4, <1>5, <1>6, <1>7 DEF Outcome, OutcomeSet
  <1>9. /\ outcomes' \in Seq(OutcomeSet)
        /\ \A j \in DOMAIN outcomes : j \in DOMAIN outcomes' /\ outcomes'[j] = outcomes[j]
        /\ \A j \in DOMAIN outcomes' :
               outcomes'[j] = o \/ (j \in DOMAIN outcomes /\ outcomes'[j] = outcomes[j])
        /\ \E j \in DOMAIN outcomes' : outcomes'[j] = o
    BY <1>1, <1>2, <1>7, <1>8, OutcomesGrow
  <1>10. /\ legs' \in Seq(Protos) /\ Len(legs') = Len(legs) - 1
         /\ DOMAIN legs' = 1..(Len(legs) - 1) /\ DOMAIN legs = 1..Len(legs)
         /\ Len(legs) \in Nat \ {0}
         /\ \A k \in DOMAIN legs' : k + 1 \in DOMAIN legs /\ legs'[k] = legs[k+1]
    <2>1. legs \in Seq(Protos)
      BY <1>2 DEF Typed
    <2> QED BY <1>1, <1>4, <2>1, HeadTailProperties, EmptySeq
  <1>11. \A k \in DOMAIN legs' : legs'[k] # Leg
    <2>1. ASSUME NEW k \in DOMAIN legs', legs'[k] = Leg PROVE FALSE
      <3>1. k + 1 \in DOMAIN legs /\ legs[k+1] = legs[1] /\ k + 1 # 1
        BY <2>1, <1>5, <1>10
      <3> QED BY <3>1, <1>2, <1>5 DEF Unreported
    <2> QED BY <2>1
  <1>12. Typed'
    BY <1>1, <1>2, <1>9, <1>10 DEF Typed, Places
  <1>13. Course'
    BY <1>1, <1>2, <1>3, <1>6 DEF Course, NoCode
  <1>14. Agenda'
    <2>1. PICK nm \in Names : nm = [at |-> at, port |-> Port, leg |-> Leg]
      BY <1>5, <1>6 DEF Names
    <2>2. Reported' = Append(Reported, nm)
      <3>1. nm = [at |-> o.at, port |-> o.port, leg |-> o.leg]
        BY <1>8, <2>1
      <3> QED BY <3>1, <1>1, <1>2, <1>7, <1>8, ReportGrows
    <2>3. /\ Reported \in Seq(Names) /\ Remaining \in Seq(Names)
          /\ Len(Remaining) = Len(legs) /\ Remaining # <<>>
      <3>1. Reported \in Seq(Names) /\ Remaining \in Seq(Names) /\ Len(Remaining) = Len(legs)
        BY <1>2, NamesOfOutcomes, NamesOfLegs
      <3> QED BY <3>1, <1>10, EmptySeq
    <2>4. Head(Remaining) = nm
      <3>1. Remaining[1] = nm
        BY <1>5, <2>1 DEF Remaining
      <3> QED BY <2>3, <3>1
    <2>5. Remaining' = Tail(Remaining)
      <3>1. /\ Tail(Remaining) \in Seq(Names) /\ Len(Tail(Remaining)) = Len(legs) - 1
            /\ \A i \in 1..Len(Tail(Remaining)) : Tail(Remaining)[i] = Remaining[i+1]
        BY <2>3, HeadTailProperties
      <3>2. (Typed /\ Course => Remaining \in Seq(Names))'
        BY RemainingNames, PTL
      <3>3. Remaining' \in Seq(Names)
        BY <1>12, <1>13, <3>2
      <3>4. /\ DOMAIN Remaining' = 1..(Len(legs) - 1)
            /\ \A i \in 1..(Len(legs) - 1) :
                  Remaining'[i] = [at |-> at, port |-> Port, leg |-> legs[i+1]]
        BY <1>1, <1>10 DEF Remaining, Port
      <3>5. Len(Remaining') = Len(legs) - 1
        BY <1>10, <3>3, <3>4
      <3>6. ASSUME NEW i \in 1..(Len(legs) - 1) PROVE Remaining'[i] = Tail(Remaining)[i]
        <4>1. i + 1 \in DOMAIN legs
          BY <1>10, <3>6
        <4>2. Remaining[i+1] = [at |-> at, port |-> Port, leg |-> legs[i+1]]
          BY <4>1 DEF Remaining
        <4> QED BY <4>2, <3>1, <3>4, <3>6
      <3> QED BY <3>1, <3>3, <3>5, <3>6, SeqEqual
    <2>6. Append(Reported, nm) \o Tail(Remaining) = Reported \o Remaining
      BY <2>3, <2>4, HeadMoves
    <2>7. Plan' = Plan
      BY <1>1 DEF Plan, Expected
    <2> QED BY <1>2, <2>2, <2>5, <2>6, <2>7 DEF Agenda
  <1>15. Unreported'
    <2>1. ASSUME NEW k \in DOMAIN legs', NEW l \in DOMAIN legs', legs'[k] = legs'[l]
          PROVE  k = l
      <3>1. k + 1 \in DOMAIN legs /\ l + 1 \in DOMAIN legs /\ legs[k+1] = legs[l+1]
        BY <2>1, <1>10
      <3>2. k + 1 = l + 1
        BY <3>1, <1>2 DEF Unreported
      <3> QED BY <3>2, <1>10
    <2>2. ASSUME NEW j \in DOMAIN outcomes'
          PROVE  /\ outcomes'[j].at \in DOMAIN answers
                 /\ outcomes'[j].at = at =>
                        \A k \in DOMAIN legs' : legs'[k] # outcomes'[j].leg
      <3>1. CASE outcomes'[j] = o
        BY <3>1, <1>6, <1>8, <1>11
      <3>2. CASE j \in DOMAIN outcomes /\ outcomes'[j] = outcomes[j]
        BY <3>2, <1>2, <1>10 DEF Unreported
      <3> QED BY <3>1, <3>2, <1>9
    <2> QED BY <1>1, <1>3, <2>1, <2>2 DEF Unreported
  <1>16. VerdictsTrue'
    <2>1. VerdictsTrue
      BY DEF Inv
    <2>2. o.verdict = IF <<o.at, o.leg>> \in broken THEN "fail" ELSE "pass"
      BY <1>2, <1>3, <1>8 DEF Accused
    <2> QED BY <1>1, <1>9, <2>1, <2>2 DEF VerdictsTrue
  <1>17. Accused'
    <2>1. ASSUME NEW b \in broken
          PROVE  \E j \in DOMAIN outcomes' : b = <<outcomes'[j].at, outcomes'[j].leg>>
      <3>1. CASE b = <<at, Leg>>
        BY <3>1, <1>8, <1>9
      <3>2. CASE \E j \in DOMAIN outcomes : b = <<outcomes[j].at, outcomes[j].leg>>
        BY <3>2, <1>9
      <3> QED BY <3>1, <3>2, <1>2 DEF Accused
    <2> QED BY <1>1, <1>2, <1>3, <2>1 DEF Accused
  <1>18. Answered'
    <2>1. o.leg # "none"
      BY <1>5, <1>8 DEF Protos
    <2>2. \A j \in DOMAIN outcomes' : outcomes'[j].leg = "none" =>
             (outcomes'[j].verdict = "fail" <=> answers[outcomes'[j].at].said = NoPort)
      BY <1>2, <1>9, <2>1 DEF Answered
    <2>3. ASSUME NEW i \in DOMAIN answers
          PROVE  \E j \in DOMAIN outcomes' :
                    /\ outcomes'[j].at = i
                    /\ answers[i].said = NoPort => outcomes'[j].leg = "none"
      <3>1. CASE i = at /\ answers[i].said # NoPort
        BY <3>1, <1>8, <1>9
      <3>2. CASE \E j \in DOMAIN outcomes :
                    /\ outcomes[j].at = i
                    /\ answers[i].said = NoPort => outcomes[j].leg = "none"
        BY <3>2, <1>9
      <3> QED BY <3>1, <3>2, <1>2 DEF Answered
    <2> QED BY <1>1, <2>2, <2>3 DEF Answered
  <1>19. Coded' /\ Stored'
    BY <1>1 DEF Coded, Stored
  <1>20. FailuresArchived'
    <2>1. Grows
      BY <1>1 DEF Grows
    <2>2. servers = answers[at].servers
      BY <1>2, <1>3 DEF Course
    <2>3. verdict = "fail" /\ <<Dir, "dir">> \notin refused =>
              Kept(Dir, Snapshots \cup (IF CollectLogs THEN servers ELSE {}))
      BY <1>1 DEF Inv, Stored
    <2>4. Filed(o)
      BY <1>8, <2>2, <2>3 DEF Filed, Dir
    <2>5. Filed(o)'
      BY <1>6, <1>8, <2>1, <2>4, FiledStays
    <2> QED BY <1>9, <2>1, <2>5, ArchivedGrows
  <1> QED BY <1>12, <1>13, <1>14, <1>15, <1>16, <1>17, <1>18, <1>19, <1>20 DEF Inv

LEMMA PortDoneStep == ASSUME Inv, PortDone PROVE Inv'
  <1>1. /\ pc = "leg" /\ pc' = "port" /\ legs = <<>> /\ at' = at + 1
        /\ UNCHANGED <<port_ids, detect, legs, verdict, todo, outcomes, dirs, code,
                       answers, broken, refused>>
    BY DEF PortDone, cfg, env
  <1>2. Typed /\ Course /\ Agenda /\ Unreported /\ Accused /\ Answered
    BY DEF Inv
  <1>3. Driving /\ ~Judged /\ ~Driving' /\ ~Judged'
    BY <1>1 DEF Driving, Judged
  <1>4. at \in Nat /\ DOMAIN answers = 1..at
    BY <1>2, <1>3 DEF Typed, Course, Positions
  <1>5. Typed'
    BY <1>1, <1>2 DEF Typed, Places, Positions
  <1>6. Course'
    BY <1>1, <1>2, <1>3, <1>4 DEF Course, NoCode
  <1>7. Agenda'
    <2>1. Remaining = <<>>
      BY <1>1, <1>2, NothingRemains
    <2>2. Remaining' = <<>>
      <3>1. (Typed /\ Course /\ legs = <<>> => Remaining = <<>>)'
        BY NothingRemains, PTL
      <3> QED BY <1>1, <1>5, <1>6, <3>1
    <2>3. Reported' = Reported /\ Plan' = Plan
      BY <1>1 DEF Reported, Plan, Expected
    <2> QED BY <1>2, <2>1, <2>2, <2>3 DEF Agenda
  <1>8. Unreported'
    <2>1. \A j \in DOMAIN outcomes : outcomes[j].at \in 1..at
      BY <1>2, <1>4 DEF Unreported
    <2>2. \A j \in DOMAIN outcomes : outcomes[j].at # at'
      BY <1>1, <1>4, <2>1
    <2> QED BY <1>1, <1>2, <2>2 DEF Unreported
  <1>9. VerdictsTrue' /\ Accused'
    BY <1>1, <1>2, <1>3 DEF Inv, VerdictsTrue, Accused
  <1>10. Answered'
    BY <1>1, <1>2 DEF Answered
  <1>11. Coded' /\ Stored'
    BY <1>1 DEF Coded, Stored
  <1>12. FailuresArchived'
    BY <1>1, ArchivedStays DEF Grows
  <1> QED BY <1>5, <1>6, <1>7, <1>8, <1>9, <1>10, <1>11, <1>12 DEF Inv

\* Some outcome has the verdict exactly if they are not none in number.
LEMMA CountPositive ==
  ASSUME Typed, NEW v
  PROVE  Count(v) > 0 <=> \E j \in DOMAIN outcomes : outcomes[j].verdict = v
  <1> DEFINE S == {i \in DOMAIN outcomes : outcomes[i].verdict = v}
  <1>1. IsFiniteSet(S)
    <2>1. DOMAIN outcomes = 1..Len(outcomes) /\ Len(outcomes) \in Nat
      BY DEF Typed
    <2>2. IsFiniteSet(DOMAIN outcomes)
      BY <2>1, FS_Interval
    <2> QED BY <2>2, FS_Subset
  <1>2. Cardinality(S) \in Nat /\ (Cardinality(S) = 0 <=> S = {})
    BY <1>1, FS_CardinalityType, FS_EmptySet
  <1> QED BY <1>2 DEF Count

LEMMA SummariseStep == ASSUME Inv, Summarise PROVE Inv'
  <1>1. /\ pc = "port" /\ pc' = "exit" /\ at > Len(port_ids) /\ code' = ExitCode
        /\ UNCHANGED <<port_ids, detect, at, legs, servers, verdict, todo, outcomes,
                       dirs, answers, broken, refused>>
    BY DEF Summarise, cfg, env
  <1>2. Typed /\ Course
    BY DEF Inv
  <1>3. ~Driving /\ ~Judged /\ ~Driving' /\ ~Judged'
    BY <1>1 DEF Driving, Judged
  <1>4. /\ code' \in {0, 1}
        /\ code' = 1 <=> \E j \in DOMAIN outcomes : outcomes[j].verdict = "fail"
    BY <1>1, <1>2, CountPositive DEF ExitCode
  <1>5. at = Len(port_ids) + 1
    <2>1. Len(answers) = at - 1 /\ Len(answers) \in Nat
      BY <1>2, <1>3 DEF Course, Typed
    <2> QED BY <1>1, <1>2, <2>1 DEF Course, Typed, Positions
  <1>6. Typed'
    BY <1>1, <1>2, <1>4 DEF Typed, Places
  <1>7. Course'
    BY <1>1, <1>2, <1>3, <1>4, <1>5 DEF Course, NoCode
  <1>8. Agenda' /\ Unreported' /\ VerdictsTrue' /\ Accused' /\ Answered'
    BY <1>1, <1>3
    DEF Inv, Agenda, Reported, Remaining, Plan, Port, Expected, Unreported, VerdictsTrue,
        Accused, Answered
  <1>9. Coded' /\ Stored'
    BY <1>1, <1>4 DEF Coded, Stored
  <1>10. FailuresArchived'
    BY <1>1, ArchivedStays DEF Grows
  <1> QED BY <1>6, <1>7, <1>8, <1>9, <1>10 DEF Inv

LEMMA SuiteInvNext == Inv /\ [SuiteNext]_suiteVars => Inv'
  <1> SUFFICES ASSUME Inv, [SuiteNext]_suiteVars PROVE Inv'
    OBVIOUS
  <1>1. CASE UNCHANGED suiteVars
    <2>1. Grows /\ Stored'
      BY <1>1 DEF suiteVars, cfg, env, Inv, Grows, Stored, Kept, Dir, Port, Leg
    <2> QED BY <1>1, <2>1, ArchiveQuiet DEF suiteVars, cfg, env
  <1>2. CASE SuiteNext
    BY <1>2, ConfigFailsStep, ConfiguredStep, PortUnresolvedStep, PortSkippedStep,
       PortResolvedStep, ProbeStep, MakeDirStep, FetchStep, StartZipsStep,
       ArchivedStep, PushStep, PortDoneStep, SummariseStep DEF SuiteNext
  <1> QED BY <1>1, <1>2

LEMMA InvAlways == SuiteSpec => []Inv
  BY SuiteInvInit, SuiteInvNext, PTL DEF SuiteSpec

\* A run that got past its configuration ends with an answer to each position.
LEMMA AllAnswered ==
  ASSUME Inv, pc = "exit", code # 2
  PROVE  /\ legs = <<>> /\ ~Driving /\ DOMAIN answers = DOMAIN port_ids
         /\ port_ids # <<>>
  BY DEF Inv, Typed, Course, Driving, Positions

-----------------------------------------------------------------------------
(* Theorems.                                                               *)

\* Whatever the panel, the paths and the disk do, the summary of a run that got
\* past its configuration has exactly the outcomes that the panel's answers call
\* for, in the order of the ports (main.rs, run_suite and test_one_port).
THEOREM EveryLegAlwaysReported == SuiteSpec => []EveryLegReported
  <1>1. Inv => EveryLegReported
    <2> SUFFICES ASSUME Inv, pc = "exit", code # 2
                 PROVE  Reported = FlattenSeq([i \in DOMAIN port_ids |-> Expected(i)])
      BY DEF EveryLegReported, Reported
    <2>1. Typed /\ Course /\ Agenda
      BY DEF Inv
    <2>2. legs = <<>> /\ DOMAIN answers = DOMAIN port_ids
      BY AllAnswered
    <2>3. Plan = [i \in DOMAIN port_ids |-> Expected(i)]
      BY <2>2 DEF Plan
    <2>4. Reported \o <<>> = Reported /\ Remaining = <<>>
      BY <2>1, <2>2, NamesOfOutcomes, NothingRemains, ConcatEmptySeq
    <2> QED BY <2>1, <2>3, <2>4 DEF Agenda
  <1> QED BY <1>1, InvAlways, PTL

\* A driven leg is reported as failed exactly when its path was broken in the
\* words of ci/README.md, or it could send nothing, for any switches and limits
\* (detect.rs, evaluate).
THEOREM VerdictsAlwaysTrue == SuiteSpec => []VerdictsTrue
  <1>1. Inv => VerdictsTrue
    BY DEF Inv
  <1> QED BY <1>1, InvAlways, PTL

\* The exit code is zero exactly for a run that started, whose ports all resolved
\* and whose legs were all sound (report.rs, exit_code).
THEOREM ExitCodeAlwaysHonest == SuiteSpec => []ExitCodeHonest
  <1>1. Inv => ExitCodeHonest
    <2> SUFFICES ASSUME Inv, pc = "exit" PROVE ExitCodeHonest
      BY DEF ExitCodeHonest
    <2>1. Typed /\ Course /\ Unreported /\ VerdictsTrue /\ Accused /\ Answered /\ Coded
      BY DEF Inv
    <2>2. ~Driving /\ ~Judged
      BY DEF Driving, Judged
    <2>3. CASE code = 2
      <3>1. at = 1 /\ outcomes = <<>> /\ broken = {}
        BY <2>1, <2>3 DEF Course
      <3>2. DOMAIN answers = {}
        BY <2>1, <2>2, <3>1 DEF Course, Typed
      <3> QED BY <2>3, <3>1, <3>2 DEF ExitCodeHonest
    <2>4. CASE code # 2
      <3>1. DOMAIN answers = DOMAIN port_ids /\ port_ids # <<>>
        BY <2>4, AllAnswered
      <3>2. 1 \in DOMAIN answers
        BY <3>1, <2>1 DEF Typed
      <3>3. DOMAIN outcomes # {}
        BY <3>2, <2>1, <2>2 DEF Answered
      <3>4. outcomes # <<>>
        BY <3>3
      <3>5. code = 1 <=> \E j \in DOMAIN outcomes : outcomes[j].verdict = "fail"
        BY <2>1, <2>4 DEF Coded
      <3>6. ASSUME NEW j \in DOMAIN outcomes, outcomes[j].verdict = "fail"
            PROVE  (\E i \in DOMAIN answers : answers[i].said = NoPort) \/ broken # {}
        <4>1. CASE outcomes[j].leg = "none"
          BY <4>1, <3>6, <2>1 DEF Answered, Unreported
        <4>2. CASE outcomes[j].leg # "none"
          BY <4>2, <3>6, <2>1 DEF VerdictsTrue
        <4> QED BY <4>1, <4>2
      <3>7. ASSUME NEW i \in DOMAIN answers, answers[i].said = NoPort
            PROVE  \E j \in DOMAIN outcomes : outcomes[j].verdict = "fail"
        <4>1. PICK j \in DOMAIN outcomes : outcomes[j].at = i /\ outcomes[j].leg = "none"
          BY <3>7, <2>1, <2>2 DEF Answered
        <4> QED BY <4>1, <3>7, <2>1 DEF Answered
      <3>8. ASSUME NEW b \in broken
            PROVE  \E j \in DOMAIN outcomes : outcomes[j].verdict = "fail"
        <4>1. PICK j \in DOMAIN outcomes : b = <<outcomes[j].at, outcomes[j].leg>>
          BY <2>1, <2>2 DEF Accused
        <4>2. outcomes[j].leg # "none" /\ <<outcomes[j].at, outcomes[j].leg>> \in broken
          BY <4>1, <2>1 DEF Accused, Protos
        <4> QED BY <4>2, <2>1 DEF VerdictsTrue
      <3> QED BY <2>4, <3>4, <3>5, <3>6, <3>7, <3>8 DEF ExitCodeHonest
    <2> QED BY <2>3, <2>4
  <1> QED BY <1>1, InvAlways, PTL

\* A leg's artifacts are in its directory but for those that were refused
\* themselves: no failure to fetch or to write one costs another, for any servers
\* and any number of failures (archive.rs, archive_failure).
THEOREM FailuresAlwaysArchived == SuiteSpec => []FailuresArchived
  <1>1. Inv => FailuresArchived
    BY DEF Inv
  <1> QED BY <1>1, InvAlways, PTL

-----------------------------------------------------------------------------
(* The sum of a function's values over a finite set.                       *)

\* The member of a set that SumFunctionOnSet adds first, and what it computes
\* for the sets of a family D.
First(s) == CHOOSE x \in s : TRUE
Adds(f, g, D) ==
    f = [s \in D |-> IF s = {} THEN 0 ELSE g[First(s)] + f[s \ {First(s)}]]

AddsUp(f, g, S) == Adds(f, g, SUBSET S)

LEMMA FirstOne == ASSUME NEW s, s # {} PROVE First(s) \in s
  BY DEF First

LEMMA AddsExist ==
  ASSUME NEW S, IsFiniteSet(S), NEW g
  PROVE  \E f : Adds(f, g, SUBSET S)
  <1> DEFINE Small(n) == {s \in SUBSET S : Cardinality(s) <= n}
             Has(n) == \E f : Adds(f, g, Small(n))
             N == {n \in Nat : ~Has(n)}
  <1>1. /\ Cardinality(S) \in Nat
        /\ \A s \in SUBSET S : Cardinality(s) \in Nat /\ Cardinality(s) <= Cardinality(S)
        /\ \A s \in SUBSET S : s # {} => Cardinality(s \ {First(s)}) = Cardinality(s) - 1
        /\ \A s \in SUBSET S : Cardinality(s) = 0 <=> s = {}
    BY FS_CardinalityType, FS_Subset, FS_RemoveElement, FS_EmptySet, FirstOne
  <1>2. Small(Cardinality(S)) = SUBSET S
    BY <1>1
  <1>3. SUFFICES ASSUME N # {} PROVE FALSE
    <2>1. SUFFICES Has(Cardinality(S))
      BY <1>2
    <2> HIDE DEF Has
    <2> QED BY <1>1
  <1>4. PICK m \in N : \A n \in N : m <= n
    BY <1>3, LeastOne
  <1>5. m # 0
    <2>1. Small(0) = {{}}
      BY <1>1
    <2>2. Adds([s \in Small(0) |-> 0], g, Small(0))
      BY <2>1 DEF Adds
    <2> QED BY <2>2, <1>4
  <1>6. m - 1 \in Nat /\ Has(m - 1)
    <2> HIDE DEF Has
    <2> QED BY <1>4, <1>5
  <1>7. PICK h : Adds(h, g, Small(m - 1))
    BY <1>6
  <1> DEFINE f == [s \in Small(m) |->
                      IF s = {} THEN 0 ELSE g[First(s)] + h[s \ {First(s)}]]
  <1>8. ASSUME NEW s \in Small(m), s # {}
        PROVE  f[s \ {First(s)}] = h[s \ {First(s)}]
    <2>1. PICK t : t = s \ {First(s)}
      OBVIOUS
    <2>2. t \in Small(m - 1) /\ t \in Small(m)
      <3>1. s \in SUBSET S /\ t \in SUBSET S
        BY <1>8, <2>1
      <3>2. Cardinality(t) = Cardinality(s) - 1 /\ Cardinality(s) <= m
        BY <1>1, <1>8, <2>1, <3>1
      <3>3. Cardinality(t) \in Nat /\ Cardinality(s) \in Nat /\ m \in Nat
        BY <1>1, <1>4, <3>1
      <3> QED BY <3>1, <3>2, <3>3
    <2>3. h[t] = IF t = {} THEN 0 ELSE g[First(t)] + h[t \ {First(t)}]
      BY <1>7, <2>2 DEF Adds
    <2>4. f[t] = IF t = {} THEN 0 ELSE g[First(t)] + h[t \ {First(t)}]
      BY <2>2
    <2> QED BY <2>1, <2>3, <2>4
  <1>9. f = [s \in Small(m) |-> IF s = {} THEN 0 ELSE g[First(s)] + f[s \ {First(s)}]]
    BY <1>8
  <1>10. Adds(f, g, Small(m))
    BY <1>9 DEF Adds
  <1> QED BY <1>10, <1>4

LEMMA SumAdds ==
  ASSUME NEW S, IsFiniteSet(S), NEW g
  PROVE  \E f : AddsUp(f, g, S) /\ SumFunctionOnSet(g, S) = f[S]
  <1> DEFINE Is(f) == f = [s \in SUBSET S |->
                              IF s = {} THEN 0
                              ELSE g[CHOOSE x \in s : TRUE] + f[s \ {CHOOSE x \in s : TRUE}]]
             f == CHOOSE h : Is(h)
  <1>1. \E h : Is(h)
    <2>1. PICK h : Adds(h, g, SUBSET S)
      BY AddsExist
    <2>2. Is(h)
      BY <2>1 DEF Adds, First
    <2> QED BY <2>2
  <1>2. Is(f)
    <2> HIDE DEF Is
    <2> QED BY <1>1
  <1>3. SumFunctionOnSet(g, S) = f[S]
    BY DEF SumFunctionOnSet, FoldFunctionOnSet, MapThenFoldSet
  <1>4. AddsUp(f, g, S)
    BY <1>2 DEF AddsUp, Adds, First
  <1> HIDE DEF f
  <1> QED BY <1>3, <1>4

\* A family of subsets of a finite set has a least member.
LEMMA LeastSet ==
  ASSUME NEW S, IsFiniteSet(S), NEW B, B # {}, \A t \in B : t \in SUBSET S
  PROVE  \E m \in B : \A t \in B : t \subseteq m => t = m
  <1> DEFINE R == StrictSubsetOrdering(S)
  <1>1. IsWellFoundedOn(R, SUBSET S)
    BY FS_StrictSubsetOrderingWellFounded, FS_FiniteSubsetsOfFinite
  <1>2. \A t, s \in SUBSET S : t \subseteq s /\ t # s => <<t, s>> \in R
    BY DEF StrictSubsetOrdering
  <1> HIDE DEF R
  <1>3. PICK m \in B : \A t \in B : ~(<<t, m>> \in R)
    BY <1>1, WFMin
  <1> QED BY <1>2, <1>3

LEMMA AddsNat ==
  ASSUME NEW S, IsFiniteSet(S), NEW g, \A x \in S : g[x] \in Nat,
         NEW f, AddsUp(f, g, S)
  PROVE  \A s \in SUBSET S : f[s] \in Nat
  <1> DEFINE B == {s \in SUBSET S : f[s] \notin Nat}
  <1>0. \A s \in SUBSET S :
          f[s] = IF s = {} THEN 0 ELSE g[First(s)] + f[s \ {First(s)}]
    BY DEF AddsUp, Adds
  <1>1. SUFFICES ASSUME B # {} PROVE FALSE
    OBVIOUS
  <1>2. PICK m \in B : \A t \in B : t \subseteq m => t = m
    <2>1. \A t \in B : t \in SUBSET S
      OBVIOUS
    <2> HIDE DEF B
    <2> QED BY <1>1, <2>1, LeastSet
  <1>3. m # {} /\ f[m] = g[First(m)] + f[m \ {First(m)}] /\ First(m) \in m
    BY <1>0, <1>2, FirstOne
  <1>4. f[m \ {First(m)}] \in Nat
    BY <1>2, <1>3
  <1>5. g[First(m)] \in Nat
    BY <1>2, <1>3
  <1> QED BY <1>2, <1>3, <1>4, <1>5

\* The order does not matter: any member may be added last.
LEMMA AddsAny ==
  ASSUME NEW S, IsFiniteSet(S), NEW g, \A x \in S : g[x] \in Nat,
         NEW f, AddsUp(f, g, S)
  PROVE  \A s \in SUBSET S : \A x \in s : f[s] = g[x] + f[s \ {x}]
  <1> DEFINE Orderless(s) == \A x \in s : f[s] = g[x] + f[s \ {x}]
             B == {s \in SUBSET S : ~Orderless(s)}
  <1>0. \A s \in SUBSET S :
          f[s] = IF s = {} THEN 0 ELSE g[First(s)] + f[s \ {First(s)}]
    BY DEF AddsUp, Adds
  <1>1. SUFFICES ASSUME B # {} PROVE FALSE
    OBVIOUS
  <1>2. PICK m \in B : \A t \in B : t \subseteq m => t = m
    <2>1. \A t \in B : t \in SUBSET S
      OBVIOUS
    <2> HIDE DEF B
    <2> QED BY <1>1, <2>1, LeastSet
  <1>3. PICK x \in m : f[m] # g[x] + f[m \ {x}]
    BY <1>2
  <1>4. PICK c \in m : f[m] = g[c] + f[m \ {c}]
    <2>1. m \in SUBSET S /\ m # {}
      BY <1>2, <1>3
    <2> QED BY <1>0, <2>1, FirstOne
  <1>5. x # c
    BY <1>3, <1>4
  <1>6. Orderless(m \ {c}) /\ Orderless(m \ {x})
    <2>1. /\ m \ {c} \in SUBSET S /\ m \ {x} \in SUBSET S
          /\ m \ {c} \subseteq m /\ m \ {c} # m /\ m \ {x} \subseteq m /\ m \ {x} # m
      BY <1>2, <1>3, <1>4
    <2> HIDE DEF Orderless
    <2> QED BY <1>2, <2>1
  <1>7. PICK r : r = (m \ {c}) \ {x} /\ r = (m \ {x}) \ {c}
    OBVIOUS
  <1>8. f[m \ {c}] = g[x] + f[r] /\ f[m \ {x}] = g[c] + f[r]
    BY <1>3, <1>4, <1>5, <1>6, <1>7
  <1>9. g[x] \in Nat /\ g[c] \in Nat /\ f[r] \in Nat
    BY <1>2, <1>3, <1>4, <1>7, AddsNat
  <1> QED BY <1>3, <1>4, <1>8, <1>9

\* The sums over the subsets of a set are those over the subsets of a greater one.
LEMMA AddsAgree ==
  ASSUME NEW S, NEW T, T \subseteq S, IsFiniteSet(T), NEW g,
         NEW f, AddsUp(f, g, S), NEW e, AddsUp(e, g, T)
  PROVE  e[T] = f[T]
  <1> DEFINE B == {s \in SUBSET T : e[s] # f[s]}
  <1>1. \A s \in SUBSET S :
          f[s] = IF s = {} THEN 0 ELSE g[First(s)] + f[s \ {First(s)}]
    BY DEF AddsUp, Adds
  <1>2. \A s \in SUBSET T :
          e[s] = IF s = {} THEN 0 ELSE g[First(s)] + e[s \ {First(s)}]
    BY DEF AddsUp, Adds
  <1>3. SUFFICES ASSUME B # {} PROVE FALSE
    OBVIOUS
  <1>4. PICK m \in B : \A t \in B : t \subseteq m => t = m
    <2>1. \A t \in B : t \in SUBSET T
      OBVIOUS
    <2> HIDE DEF B
    <2> QED BY <1>3, <2>1, LeastSet
  <1>5. m \in SUBSET T /\ m \in SUBSET S /\ m # {} /\ First(m) \in m
    BY <1>1, <1>2, <1>4, FirstOne
  <1>6. e[m \ {First(m)}] = f[m \ {First(m)}]
    BY <1>4, <1>5
  <1> QED BY <1>1, <1>2, <1>4, <1>5, <1>6

-----------------------------------------------------------------------------
LEMMA SumNone ==
  ASSUME NEW g PROVE SumFunctionOnSet(g, {}) = 0
  <1>1. PICK f : AddsUp(f, g, {}) /\ SumFunctionOnSet(g, {}) = f[{}]
    BY SumAdds, FS_EmptySet
  <1> QED BY <1>1 DEF AddsUp, Adds

LEMMA SumNat ==
  ASSUME NEW S, IsFiniteSet(S), NEW g, \A x \in S : g[x] \in Nat
  PROVE  SumFunctionOnSet(g, S) \in Nat
  <1>1. PICK f : AddsUp(f, g, S) /\ SumFunctionOnSet(g, S) = f[S]
    BY SumAdds
  <1> QED BY <1>1, AddsNat

\* The sums over a set and over what is left without one member.
LEMMA SumWithout ==
  ASSUME NEW S, IsFiniteSet(S), NEW g, \A x \in S : g[x] \in Nat, NEW x \in S
  PROVE  SumFunctionOnSet(g, S) = g[x] + SumFunctionOnSet(g, S \ {x})
  <1>0. PICK T : T = S \ {x}
    OBVIOUS
  <1>1. IsFiniteSet(T) /\ T \in SUBSET S
    BY <1>0, FS_Subset
  <1>2. PICK f : AddsUp(f, g, S) /\ SumFunctionOnSet(g, S) = f[S]
    BY SumAdds
  <1>3. PICK e : AddsUp(e, g, T) /\ SumFunctionOnSet(g, T) = e[T]
    BY <1>1, SumAdds
  <1>4. f[S] = g[x] + f[T]
    BY <1>0, <1>2, AddsAny
  <1>5. e[T] = f[T]
    BY <1>1, <1>2, <1>3, AddsAgree
  <1> QED BY <1>0, <1>2, <1>3, <1>4, <1>5

\* What grows at each member of a set that grows has a greater sum.
LEMMA SumGrows ==
  ASSUME NEW T, IsFiniteSet(T), NEW S, S \subseteq T, NEW g, NEW h,
         \A x \in S : g[x] \in Nat /\ g[x] <= h[x], \A x \in T : h[x] \in Nat
  PROVE  SumFunctionOnSet(g, S) <= SumFunctionOnSet(h, T)
  <1> DEFINE Over(t) == SumFunctionOnSet(g, S \cap t) <= SumFunctionOnSet(h, t)
             B == {t \in SUBSET T : ~Over(t)}
  <1>1. SUFFICES ASSUME B # {} PROVE FALSE
    <2>1. S \cap T = S /\ T \in SUBSET T
      OBVIOUS
    <2>2. Over(T)
      <3> HIDE DEF Over
      <3> QED BY <1>1, <2>1
    <2> QED BY <2>1, <2>2
  <1>2. PICK m \in B : \A t \in B : t \subseteq m => t = m
    <2>1. \A t \in B : t \in SUBSET T
      OBVIOUS
    <2> HIDE DEF B
    <2> QED BY <1>1, <2>1, LeastSet
  <1>3. m # {}
    <2>1. Over({})
      <3>1. S \cap {} = {}
        OBVIOUS
      <3> QED BY <3>1, SumNone
    <2> HIDE DEF Over
    <2> QED BY <1>2, <2>1
  <1>4. PICK x \in m : TRUE
    BY <1>3
  <1>5. PICK r : r = m \ {x}
    OBVIOUS
  <1>6. /\ m \in SUBSET T /\ r \in SUBSET T /\ x \in T
        /\ IsFiniteSet(m) /\ IsFiniteSet(r)
        /\ IsFiniteSet(S \cap m) /\ IsFiniteSet(S \cap r)
    BY <1>2, <1>4, <1>5, FS_Subset
  <1>7. SumFunctionOnSet(g, S \cap r) <= SumFunctionOnSet(h, r)
    <2>1. r \subseteq m /\ r # m
      BY <1>4, <1>5
    <2>2. Over(r)
      <3> HIDE DEF Over
      <3> QED BY <1>2, <1>6, <2>1
    <2> QED BY <2>2
  <1>8. SumFunctionOnSet(h, m) = h[x] + SumFunctionOnSet(h, r)
    BY <1>4, <1>5, <1>6, SumWithout
  <1>9. SumFunctionOnSet(g, S \cap m) =
          IF x \in S THEN g[x] + SumFunctionOnSet(g, S \cap r)
          ELSE SumFunctionOnSet(g, S \cap r)
    <2>1. CASE x \in S
      <3>1. x \in S \cap m /\ (S \cap m) \ {x} = S \cap r
        BY <2>1, <1>4, <1>5
      <3>2. \A y \in S \cap m : g[y] \in Nat
        OBVIOUS
      <3> QED BY <2>1, <3>1, <3>2, <1>6, SumWithout
    <2>2. CASE x \notin S
      <3>1. S \cap m = S \cap r
        BY <2>2, <1>5
      <3> QED BY <2>2, <3>1
    <2> QED BY <2>1, <2>2
  <1>10. /\ SumFunctionOnSet(h, r) \in Nat /\ SumFunctionOnSet(g, S \cap r) \in Nat
         /\ h[x] \in Nat /\ (x \in S => g[x] \in Nat /\ g[x] <= h[x])
    BY <1>6, SumNat
  <1>11. ~(SumFunctionOnSet(g, S \cap m) <= SumFunctionOnSet(h, m))
    BY <1>2
  <1> QED BY <1>7, <1>8, <1>9, <1>10, <1>11

-----------------------------------------------------------------------------
(* The client's users.                                                     *)

InSession == {u \in Users : user[u] \notin {"start", "done"}}

Booked ==
    /\ user \in [Users -> UserPCs]
    /\ IsFiniteSet(InSession)
    /\ active_users = Cardinality(InSession)

LEMMA BookedInit == Init => Booked
  <1> SUFFICES ASSUME Init PROVE Booked
    OBVIOUS
  <1>1. InSession = {}
    BY DEF Init, InSession
  <1> QED BY <1>1, FS_EmptySet DEF Init, Booked, UserPCs

\* Neither the user's entry nor its exit: the set and the count stay.
LEMMA SessionGoesOn ==
  ASSUME Booked, NEW u \in Users, NEW from, NEW to \in UserPCs \ {"start", "done"},
         from \notin {"start", "done"}, User(u, from, to),
         UNCHANGED active_users
  PROVE  Booked'
  <1>1. user' \in [Users -> UserPCs]
    BY DEF Booked, User
  <1>2. InSession' = InSession
    BY DEF Booked, User, InSession
  <1> QED BY <1>1, <1>2 DEF Booked

LEMMA UsersUntouched ==
  ASSUME Booked, UNCHANGED <<user, active_users>> PROVE Booked'
  BY DEF Booked, InSession

LEMMA BeginStep ==
  ASSUME Booked, NEW u \in Users, Begin(u) PROVE Booked'
  <1>1. user[u] = "start" /\ user' = [user EXCEPT ![u] = "loop"]
    BY DEF Begin, User
  <1>2. u \notin InSession /\ InSession' = InSession \cup {u}
    BY <1>1 DEF Booked, InSession
  <1>3. IsFiniteSet(InSession') /\ Cardinality(InSession') = Cardinality(InSession) + 1
    BY <1>2, FS_AddElement DEF Booked
  <1>4. user' \in [Users -> UserPCs]
    BY <1>1 DEF Booked, UserPCs
  <1> QED BY <1>3, <1>4 DEF Booked, Begin

LEMMA LeaveStep ==
  ASSUME Booked, NEW u \in Users, Leave(u) PROVE Booked'
  <1>1. user[u] = "leave" /\ user' = [user EXCEPT ![u] = "done"]
    BY DEF Leave, User
  <1>2. u \in InSession /\ InSession' = InSession \ {u}
    BY <1>1 DEF Booked, InSession
  <1>3. IsFiniteSet(InSession') /\ Cardinality(InSession') = Cardinality(InSession) - 1
    BY <1>2, FS_RemoveElement DEF Booked
  \* The guard against zero in decrement_active_users never bites.
  <1>4. active_users > 0
    <2>1. Cardinality(InSession) \in Nat /\ Cardinality(InSession') \in Nat
      BY <1>3, FS_CardinalityType DEF Booked
    <2> QED BY <2>1, <1>3 DEF Booked
  <1>5. user' \in [Users -> UserPCs]
    BY <1>1 DEF Booked, UserPCs
  <1> QED BY <1>3, <1>4, <1>5 DEF Booked, Leave

LEMMA UserStepKeeps ==
  ASSUME Booked, NEW u \in Users, UserStep(u) PROVE Booked'
  <1> USE DEF UserPCs
  <1>1. CASE Begin(u)
    BY <1>1, BeginStep
  <1>2. CASE Leave(u)
    BY <1>2, LeaveStep
  <1>3. CASE Think(u)
    BY <1>3, SessionGoesOn DEF Think
  <1>4. CASE Act(u)
    BY <1>4, SessionGoesOn DEF Act
  <1>5. CASE Quit(u)
    BY <1>5, SessionGoesOn DEF Quit
  <1>6. CASE Transfer(u)
    BY <1>6, SessionGoesOn DEF Transfer
  <1>7. CASE RecordError(u)
    BY <1>7, SessionGoesOn DEF RecordError
  <1>8. CASE EndRecord(u)
    BY <1>8, SessionGoesOn DEF EndRecord
  <1>9. CASE Abandon(u)
    BY <1>9, SessionGoesOn DEF Abandon
  <1>10. CASE NextPage(u)
    BY <1>10, SessionGoesOn DEF NextPage
  <1>11. CASE ActivityOver(u)
    BY <1>11, SessionGoesOn DEF ActivityOver
  <1> QED
    BY <1>1, <1>2, <1>3, <1>4, <1>5, <1>6, <1>7, <1>8, <1>9, <1>10, <1>11
    DEF UserStep

LEMMA OthersKeep ==
  ASSUME Booked,
         \/ \E u \in Users : StopFires(u)
         \/ SamplerStep \/ MainStep \/ Interrupted \/ Advance
  PROVE  Booked'
  <1>1. CASE \E u \in Users : StopFires(u)
    BY <1>1, UsersUntouched DEF StopFires
  <1>2. CASE SamplerStep
    BY <1>2, UsersUntouched
    DEF SamplerStep, SamplerTick, Meet, Commit,
        Skip, CommitErrors
  <1>3. CASE MainStep \/ Interrupted
    BY <1>3, UsersUntouched
    DEF MainStep, SimulationEnds, Interrupted, Stop,
        CopyRecords, CopyThroughput, CopyErrors
  <1>4. CASE Advance
    BY <1>4, UsersUntouched DEF Advance
  <1> QED BY <1>1, <1>2, <1>3, <1>4

\* The screen's "active users" is exact at every moment of every run: each
\* session is counted in once and out once, by its condition or by the break,
\* and decrement_active_users never meets a zero (simulator.rs:108, 168).
THEOREM ActiveUsersAlwaysExact == Spec => []ActiveUsersExact
  <1>1. Init => Booked
    BY BookedInit
  <1>2. Booked /\ [Next]_vars => Booked'
    <2> SUFFICES ASSUME Booked, [Next]_vars PROVE Booked'
      OBVIOUS
    <2>1. CASE UNCHANGED vars
      BY <2>1, UsersUntouched DEF vars
    <2>2. CASE Next
      BY <2>2, UserStepKeeps, OthersKeep DEF Next
    <2> QED BY <2>1, <2>2
  <1>3. Booked => ActiveUsersExact
    BY DEF Booked, ActiveUsersExact, InSession
  <1> QED BY <1>1, <1>2, <1>3, PTL DEF Spec

-----------------------------------------------------------------------------
(* The client's metrics.                                                   *)

InActivity == {"act", "failed", "page"}
Records == [kind : Kinds, bytes : Nat, errors : Nat, start : Nat, end : Nat]

Recorded ==
    /\ now \in Nat /\ made \in [Users -> Nat] /\ user \in [Users -> UserPCs]
    /\ IsFiniteSet(DOMAIN connections)
    /\ \A id \in DOMAIN connections :
          /\ connections[id] \in Records
          /\ \E u \in Users : \E n \in 1..made[u] : id = <<u, n>>
    /\ \A u \in Users : user[u] \in InActivity => Current(u) \in DOMAIN connections

\* Records are made and never lost, and what they count never falls.
Grown ==
    /\ DOMAIN connections \subseteq DOMAIN connections'
    /\ \A id \in DOMAIN connections :
          /\ connections'[id].kind = connections[id].kind
          /\ connections[id].bytes <= connections'[id].bytes
          /\ connections[id].errors <= connections'[id].errors

LEMMA RecordedInit == Init => Recorded
  <1> SUFFICES ASSUME Init PROVE Recorded
    OBVIOUS
  <1>1. DOMAIN connections = {} /\ IsFiniteSet({})
    BY FS_EmptySet DEF Init
  <1> QED BY <1>1 DEF Init, Recorded, UserPCs, InActivity

LEMMA NothingRecorded ==
  ASSUME Recorded, UNCHANGED <<now, user, connections, made>>
  PROVE  Recorded' /\ Grown
  <1>1. Recorded'
    BY DEF Recorded, Current
  <1>2. Grown
    BY DEF Recorded, Records, Grown
  <1> QED BY <1>1, <1>2

\* A user moves, and its record stays what it is.
LEMMA MoveRecorded ==
  ASSUME Recorded, NEW u \in Users, NEW from, NEW to \in UserPCs, User(u, from, to),
         to \in InActivity => from \in InActivity,
         UNCHANGED <<now, connections, made>>
  PROVE  Recorded' /\ Grown
  <1>1. user' = [user EXCEPT ![u] = to] /\ user[u] = from
    BY DEF User
  <1>2. \A v \in Users : user'[v] \in InActivity => user[v] \in InActivity
    BY <1>1 DEF Recorded
  <1>3. user' \in [Users -> UserPCs]
    BY <1>1 DEF Recorded
  <1>4. Recorded'
    BY <1>2, <1>3 DEF Recorded, Current
  <1>5. Grown
    BY DEF Recorded, Records, Grown
  <1> QED BY <1>4, <1>5

\* It begins a record.
LEMMA StartRecorded ==
  ASSUME Recorded, NEW u \in Users, NEW from, User(u, from, "act"),
         NEW k \in Kinds, StartRecord(u, k), UNCHANGED now
  PROVE  Recorded' /\ Grown
  <1>1. PICK id : id = <<u, made[u] + 1>>
    OBVIOUS
  <1>2. /\ user' = [user EXCEPT ![u] = "act"]
        /\ made' = [made EXCEPT ![u] = @ + 1]
        /\ connections' = [i \in DOMAIN connections \cup {id} |->
                              IF i = id THEN Fresh(k) ELSE connections[i]]
    BY <1>1 DEF User, StartRecord
  <1>3. id \notin DOMAIN connections
    <2>1. made[u] \in Nat
      BY DEF Recorded
    <2>2. ~\E v \in Users : \E n \in 1..made[v] : id = <<v, n>>
      BY <1>1, <2>1
    <2> QED BY <2>2 DEF Recorded
  <1>4. Fresh(k) \in Records
    BY TimesAssumption DEF Fresh, Records, Open, Recorded
  <1>5. /\ user' \in [Users -> UserPCs] /\ made' \in [Users -> Nat] /\ now' \in Nat
        /\ \A v \in Users : made[v] \in Nat /\ made[v] <= made'[v]
        /\ made'[u] = made[u] + 1 /\ \A v \in Users \ {u} : made'[v] = made[v]
    BY <1>2 DEF Recorded, UserPCs
  <1>6. DOMAIN connections' = DOMAIN connections \cup {id}
    BY <1>2
  <1>7. IsFiniteSet(DOMAIN connections')
    BY <1>6, FS_AddElement DEF Recorded
  <1>8. \A i \in DOMAIN connections' : connections'[i] \in Records
    BY <1>2, <1>4, <1>6 DEF Recorded
  <1>9. \A i \in DOMAIN connections' : \E v \in Users : \E n \in 1..made'[v] : i = <<v, n>>
    <2>1. ASSUME NEW i \in DOMAIN connections
          PROVE  \E v \in Users : \E n \in 1..made'[v] : i = <<v, n>>
      <3>1. PICK v \in Users : \E n \in 1..made[v] : i = <<v, n>>
        BY <2>1 DEF Recorded
      <3>2. 1..made[v] \subseteq 1..made'[v]
        BY <1>5
      <3> QED BY <3>1, <3>2
    <2>2. made[u] + 1 \in 1..made'[u]
      BY <1>5
    <2> QED BY <1>1, <1>6, <2>1, <2>2
  <1>10. \A v \in Users : user'[v] \in InActivity => Current(v)' \in DOMAIN connections'
    <2>1. Current(u)' = id
      BY <1>1, <1>5 DEF Current
    <2>2. \A v \in Users \ {u} : Current(v)' = Current(v) /\ user'[v] = user[v]
      BY <1>2, <1>5 DEF Current, Recorded
    <2> QED BY <1>6, <2>1, <2>2 DEF Recorded
  <1>11. Recorded'
    BY <1>5, <1>7, <1>8, <1>9, <1>10 DEF Recorded
  <1>12. Grown
    BY <1>2, <1>3, <1>6 DEF Grown, Recorded, Records
  <1> QED BY <1>11, <1>12

\* It changes its record's counts or its end.
LEMMA UpdateRecorded ==
  ASSUME Recorded, NEW u \in Users, user[u] \in InActivity,
         NEW to \in UserPCs, User(u, user[u], to),
         NEW r \in Records, connections' = [connections EXCEPT ![Current(u)] = r],
         r.kind = connections[Current(u)].kind,
         connections[Current(u)].bytes <= r.bytes,
         connections[Current(u)].errors <= r.errors,
         UNCHANGED <<now, made>>
  PROVE  Recorded' /\ Grown
  <1>1. user' = [user EXCEPT ![u] = to] /\ Current(u) \in DOMAIN connections
    BY DEF User, Recorded
  <1>2. /\ DOMAIN connections' = DOMAIN connections
        /\ \A id \in DOMAIN connections :
              connections'[id] = IF id = Current(u) THEN r ELSE connections[id]
    OBVIOUS
  <1>3. Recorded'
    <2>1. user' \in [Users -> UserPCs]
      BY <1>1 DEF Recorded
    <2>2. \A v \in Users : user'[v] \in InActivity => Current(v)' \in DOMAIN connections
      <3>1. \A v \in Users : user'[v] \in InActivity => user[v] \in InActivity
        BY <1>1 DEF Recorded
      <3> QED BY <3>1 DEF Recorded, Current
    <2> QED BY <1>2, <2>1, <2>2 DEF Recorded
  <1>4. Grown
    BY <1>2 DEF Grown, Recorded, Records
  <1> QED BY <1>3, <1>4

LEMMA UserRecorded ==
  ASSUME Recorded, NEW u \in Users, UserStep(u)
  PROVE  Recorded' /\ Grown
  <1> DEFINE c == connections[Current(u)]
  <1>0. /\ {"start", "loop", "think", "leave", "done"} \cap InActivity = {}
        /\ InActivity \subseteq UserPCs /\ {"loop", "think", "leave", "done"} \subseteq UserPCs
        /\ "act" \in InActivity /\ "failed" \in InActivity /\ "page" \in InActivity
    BY DEF InActivity, UserPCs
  <1>a. user[u] \in InActivity => c \in Records
    BY DEF Recorded
  <1>1. CASE Begin(u)
    BY <1>0, <1>1, MoveRecorded DEF Begin
  <1>2. CASE Think(u)
    BY <1>0, <1>2, MoveRecorded DEF Think
  <1>3. CASE Act(u)
    <2>1. PICK k \in Kinds : StartRecord(u, k)
      BY <1>3 DEF Act
    <2> QED BY <1>3, <2>1, StartRecorded DEF Act
  <1>4. CASE Quit(u)
    BY <1>0, <1>4, MoveRecorded DEF Quit
  <1>5. CASE Leave(u)
    BY <1>0, <1>5, MoveRecorded DEF Leave
  <1>6. CASE Transfer(u)
    <2>1. PICK r : r = [c EXCEPT !.bytes = @ + 1]
      OBVIOUS
    <2>2. User(u, user[u], "act") /\ user[u] \in InActivity
      BY <1>0, <1>6 DEF Transfer, User
    <2>3. /\ r \in Records /\ r.kind = c.kind
          /\ c.bytes <= r.bytes /\ c.errors <= r.errors
      BY <1>a, <2>1, <2>2 DEF Records
    <2>4. connections' = [connections EXCEPT ![Current(u)] = r]
      BY <1>6, <2>1 DEF Transfer
    <2>5. UNCHANGED <<now, made>>
      BY <1>6 DEF Transfer
    <2> QED BY <1>0, <2>2, <2>3, <2>4, <2>5, UpdateRecorded
  <1>7. CASE RecordError(u)
    <2>1. PICK r : r = [c EXCEPT !.errors = @ + 1]
      OBVIOUS
    <2>2. PICK to \in InActivity : User(u, user[u], to) /\ user[u] \in InActivity
      BY <1>0, <1>7 DEF RecordError, User
    <2>3. /\ r \in Records /\ r.kind = c.kind
          /\ c.bytes <= r.bytes /\ c.errors <= r.errors
      BY <1>a, <2>1, <2>2 DEF Records
    <2>4. connections' = [connections EXCEPT ![Current(u)] = r]
      BY <1>7, <2>1 DEF RecordError
    <2>5. UNCHANGED <<now, made>> /\ to \in UserPCs
      BY <1>0, <1>7, <2>2 DEF RecordError
    <2> QED BY <2>2, <2>3, <2>4, <2>5, UpdateRecorded
  <1>8. CASE EndRecord(u)
    <2>1. PICK r : r = [c EXCEPT !.end = now]
      OBVIOUS
    <2>2. User(u, user[u], "page") /\ user[u] \in InActivity
      BY <1>0, <1>8 DEF EndRecord, User
    <2>3. /\ r \in Records /\ r.kind = c.kind
          /\ c.bytes <= r.bytes /\ c.errors <= r.errors
      BY <1>a, <2>1, <2>2 DEF Records, Recorded
    <2>4. connections' = [connections EXCEPT ![Current(u)] = r]
      BY <1>8, <2>1 DEF EndRecord
    <2>5. UNCHANGED <<now, made>>
      BY <1>8 DEF EndRecord
    <2> QED BY <1>0, <2>2, <2>3, <2>4, <2>5, UpdateRecorded
  <1>9. CASE Abandon(u)
    <2>1. \E from \in InActivity : User(u, from, "loop")
      BY <1>0, <1>9 DEF Abandon
    <2>2. UNCHANGED <<now, connections, made>>
      BY <1>9 DEF Abandon
    <2> QED BY <1>0, <2>1, <2>2, MoveRecorded
  <1>10. CASE NextPage(u)
    <2>1. "tcp" \in Kinds
      <3>1. user[u] \in InActivity /\ c.kind = "tcp"
        BY <1>0, <1>10 DEF NextPage
      <3> QED BY <1>a, <3>1 DEF Records
    <2> QED BY <1>10, <2>1, StartRecorded DEF NextPage
  <1>11. CASE ActivityOver(u)
    BY <1>0, <1>11, MoveRecorded DEF ActivityOver
  <1> QED BY <1>1, <1>2, <1>3, <1>4, <1>5, <1>6, <1>7, <1>8, <1>9, <1>10, <1>11
          DEF UserStep

\* Nobody else writes to the records.
LEMMA OthersRecorded ==
  ASSUME Recorded,
         \/ \E u \in Users : StopFires(u)
         \/ SamplerStep \/ MainStep \/ Interrupted \/ Advance
  PROVE  Recorded' /\ Grown /\ UNCHANGED <<user, connections>>
  <1>1. UNCHANGED <<user, connections, made>> /\ now' \in Nat
    BY DEF Recorded, StopFires, SamplerStep, SamplerTick, Meet, Commit, Skip,
           CommitErrors, MainStep, SimulationEnds, Interrupted, Stop, CopyRecords,
           CopyThroughput, CopyErrors, Advance
  <1>2. Recorded'
    BY <1>1 DEF Recorded, Current
  <1>3. Grown
    BY <1>1 DEF Recorded, Records, Grown
  <1> QED BY <1>1, <1>2, <1>3

-----------------------------------------------------------------------------
BytesOf(k) == [id \in DOMAIN connections |->
                  IF connections[id].kind = k THEN connections[id].bytes ELSE 0]
ErrorsOf(k) == [id \in DOMAIN connections |->
                  IF connections[id].kind = k THEN connections[id].errors ELSE 0]
AllBytes(k) == SumFunctionOnSet(BytesOf(k), DOMAIN connections)
AllErrors(k) == SumFunctionOnSet(ErrorsOf(k), DOMAIN connections)
CountedOf(k) == IF sampler = "sum" THEN BytesOf(k) ELSE ErrorsOf(k)

SamplesTyped ==
    /\ sampler \in {"tick", "sum", "errors"}
    /\ unseen \subseteq DOMAIN connections /\ met \subseteq DOMAIN connections
    /\ acc \in [Kinds -> Nat] /\ last \in [Kinds -> Nat] /\ floor \in [Kinds -> Nat]
    /\ throughput_history \in [Kinds -> Nat] /\ error_history \in [Kinds -> Nat]

\* What the sampler has summed up lies between what the records it has met
\* hold now and what all of them held at the start of the pass, less what it
\* has still to meet.
Sampled ==
    \A k \in Kinds :
        /\ throughput_history[k] = last[k]
        /\ last[k] <= AllBytes(k)
        /\ error_history[k] <= AllErrors(k)
        /\ acc[k] <= SumFunctionOnSet(CountedOf(k), met)
        /\ sampler = "sum" =>
              /\ last[k] <= floor[k]
              /\ floor[k] <= acc[k] + SumFunctionOnSet(BytesOf(k), unseen)

LEMMA TrafficBytes == \A k \in Kinds : Traffic(connections)[k] = AllBytes(k)
  BY DEF Traffic, Total, Bytes, AllBytes, BytesOf, SumFunction

LEMMA TotalErrors == \A k \in Kinds : Total(Errors, connections, k) = AllErrors(k)
  BY DEF Total, Errors, AllErrors, ErrorsOf, SumFunction

\* What is counted, and its sums.
Countable(k) ==
    /\ \A id \in DOMAIN connections : BytesOf(k)[id] \in Nat /\ ErrorsOf(k)[id] \in Nat
    /\ \A S \in SUBSET DOMAIN connections :
          /\ IsFiniteSet(S)
          /\ SumFunctionOnSet(BytesOf(k), S) \in Nat
          /\ SumFunctionOnSet(ErrorsOf(k), S) \in Nat

AllCountable == \A k \in Kinds : Countable(k)

LEMMA RecordsCount == Recorded => AllCountable
  <1> SUFFICES ASSUME Recorded, NEW k \in Kinds PROVE Countable(k)
    BY DEF AllCountable
  <1>1. \A id \in DOMAIN connections : BytesOf(k)[id] \in Nat /\ ErrorsOf(k)[id] \in Nat
    BY DEF Recorded, Records, BytesOf, ErrorsOf
  <1>2. ASSUME NEW S \in SUBSET DOMAIN connections
        PROVE  /\ IsFiniteSet(S)
               /\ SumFunctionOnSet(BytesOf(k), S) \in Nat
               /\ SumFunctionOnSet(ErrorsOf(k), S) \in Nat
    <2>1. IsFiniteSet(S)
      BY FS_Subset DEF Recorded
    <2> QED BY <1>1, <2>1, SumNat
  <1> QED BY <1>1, <1>2 DEF Countable

\* Sums over records that have grown have.
LEMMA SumsGrow ==
  ASSUME Recorded, Recorded', Grown, NEW k \in Kinds,
         NEW S, NEW T, S \subseteq DOMAIN connections, T \subseteq DOMAIN connections',
         S \subseteq T
  PROVE  /\ SumFunctionOnSet(BytesOf(k), S) <= SumFunctionOnSet(BytesOf(k)', T)
         /\ SumFunctionOnSet(ErrorsOf(k), S) <= SumFunctionOnSet(ErrorsOf(k)', T)
  <1>1. \A id \in DOMAIN connections : BytesOf(k)[id] \in Nat /\ ErrorsOf(k)[id] \in Nat
    BY RecordsCount DEF AllCountable, Countable
  <1>2. \A id \in DOMAIN connections' : BytesOf(k)'[id] \in Nat /\ ErrorsOf(k)'[id] \in Nat
    BY DEF Recorded, Records, BytesOf, ErrorsOf
  <1>3. \A id \in DOMAIN connections :
            BytesOf(k)[id] <= BytesOf(k)'[id] /\ ErrorsOf(k)[id] <= ErrorsOf(k)'[id]
    BY DEF Grown, Recorded, Records, BytesOf, ErrorsOf
  <1>4. IsFiniteSet(T)
    BY FS_Subset DEF Recorded
  <1>5. PICK b : b = BytesOf(k)'
    OBVIOUS
  <1>6. PICK e : e = ErrorsOf(k)'
    OBVIOUS
  <1>7. SumFunctionOnSet(BytesOf(k), S) <= SumFunctionOnSet(b, T)
    BY <1>1, <1>2, <1>3, <1>4, <1>5, SumGrows
  <1>8. SumFunctionOnSet(ErrorsOf(k), S) <= SumFunctionOnSet(e, T)
    BY <1>1, <1>2, <1>3, <1>4, <1>6, SumGrows
  <1> QED BY <1>5, <1>6, <1>7, <1>8

\* Steps of the others, while the sampler rests.
LEMMA SampledStays ==
  ASSUME Recorded, Recorded', Grown, SamplesTyped, Sampled, UNCHANGED sampling
  PROVE  SamplesTyped' /\ Sampled'
  <1>1. UNCHANGED <<sampler, unseen, met, acc, last, throughput_history, error_history, floor>>
    BY DEF sampling
  <1>2. SamplesTyped'
    BY <1>1 DEF SamplesTyped, Grown
  <1>3. ASSUME NEW k \in Kinds
        PROVE  /\ throughput_history'[k] = last'[k]
               /\ last'[k] <= AllBytes(k)'
               /\ error_history'[k] <= AllErrors(k)'
               /\ acc'[k] <= SumFunctionOnSet(CountedOf(k)', met')
               /\ sampler' = "sum" =>
                     /\ last'[k] <= floor'[k]
                     /\ floor'[k] <= acc'[k] + SumFunctionOnSet(BytesOf(k)', unseen')
    <2>1. /\ met \subseteq DOMAIN connections /\ unseen \subseteq DOMAIN connections
          /\ DOMAIN connections \subseteq DOMAIN connections'
      BY DEF SamplesTyped, Grown
    <2>2. /\ SumFunctionOnSet(BytesOf(k), met) <= SumFunctionOnSet(BytesOf(k)', met)
          /\ SumFunctionOnSet(ErrorsOf(k), met) <= SumFunctionOnSet(ErrorsOf(k)', met)
          /\ SumFunctionOnSet(BytesOf(k), unseen) <= SumFunctionOnSet(BytesOf(k)', unseen)
          /\ AllBytes(k) <= AllBytes(k)' /\ AllErrors(k) <= AllErrors(k)'
      BY <2>1, SumsGrow DEF AllBytes, AllErrors
    <2>3. /\ SumFunctionOnSet(BytesOf(k), met) \in Nat
          /\ SumFunctionOnSet(ErrorsOf(k), met) \in Nat
          /\ SumFunctionOnSet(BytesOf(k), unseen) \in Nat
          /\ AllBytes(k) \in Nat /\ AllErrors(k) \in Nat
      BY <2>1, RecordsCount DEF AllCountable, Countable, AllBytes, AllErrors
    <2>4. /\ SumFunctionOnSet(BytesOf(k)', met) \in Nat
          /\ SumFunctionOnSet(ErrorsOf(k)', met) \in Nat
          /\ SumFunctionOnSet(BytesOf(k)', unseen) \in Nat
          /\ AllBytes(k)' \in Nat /\ AllErrors(k)' \in Nat
      <3>1. (Recorded => AllCountable)'
        BY RecordsCount, PTL
      <3>2. Countable(k)'
        BY <3>1 DEF AllCountable
      <3> QED BY <2>1, <3>2 DEF Countable, AllBytes, AllErrors
    <2>5. /\ throughput_history[k] = last[k]
          /\ last[k] <= AllBytes(k)
          /\ error_history[k] <= AllErrors(k)
          /\ acc[k] <= SumFunctionOnSet(CountedOf(k), met)
          /\ sampler = "sum" =>
                /\ last[k] <= floor[k]
                /\ floor[k] <= acc[k] + SumFunctionOnSet(BytesOf(k), unseen)
      BY DEF Sampled
    <2>6. /\ acc[k] \in Nat /\ last[k] \in Nat /\ floor[k] \in Nat
          /\ error_history[k] \in Nat
      BY DEF SamplesTyped
    <2>7. /\ CountedOf(k) = IF sampler = "sum" THEN BytesOf(k) ELSE ErrorsOf(k)
          /\ CountedOf(k)' = IF sampler = "sum" THEN BytesOf(k)' ELSE ErrorsOf(k)'
      BY <1>1 DEF CountedOf
    <2>8. acc[k] <= SumFunctionOnSet(CountedOf(k)', met)
      BY <2>2, <2>3, <2>4, <2>5, <2>6, <2>7
    <2> QED BY <1>1, <2>2, <2>3, <2>4, <2>5, <2>6, <2>8
  <1>4. Sampled'
    BY <1>3 DEF Sampled
  <1> QED BY <1>2, <1>4

LEMMA SampledInit == Init => SamplesTyped /\ Sampled
  <1> SUFFICES ASSUME Init PROVE SamplesTyped /\ Sampled
    OBVIOUS
  <1>1. DOMAIN connections = {} /\ met = {} /\ unseen = {} /\ sampler = "tick"
    BY DEF Init
  <1>2. SamplesTyped
    BY <1>1 DEF Init, SamplesTyped, Nothing
  <1>3. ASSUME NEW k \in Kinds
        PROVE  /\ AllBytes(k) = 0 /\ AllErrors(k) = 0
               /\ SumFunctionOnSet(CountedOf(k), met) = 0
    BY <1>1, SumNone DEF AllBytes, AllErrors
  <1>4. \A k \in Kinds : /\ throughput_history[k] = 0 /\ last[k] = 0
                         /\ error_history[k] = 0 /\ acc[k] = 0
    BY DEF Init, Nothing
  <1> QED BY <1>1, <1>2, <1>3, <1>4 DEF Sampled

\* The sampler's own steps leave the records alone.
LEMMA RestSums ==
  ASSUME UNCHANGED connections
  PROVE  \A k : /\ BytesOf(k)' = BytesOf(k) /\ ErrorsOf(k)' = ErrorsOf(k)
                /\ AllBytes(k)' = AllBytes(k) /\ AllErrors(k)' = AllErrors(k)
  BY DEF BytesOf, ErrorsOf, AllBytes, AllErrors

LEMMA TickSampled ==
  ASSUME Recorded, SamplesTyped, Sampled, SamplerTick
  PROVE  SamplesTyped' /\ Sampled'
  <1>1. /\ sampler' = "sum" /\ unseen' = DOMAIN connections /\ met' = {} /\ acc' = Nothing
        /\ floor' = Traffic(connections)
        /\ UNCHANGED <<connections, last, throughput_history, error_history>>
    BY DEF SamplerTick
  <1>2. \A k \in Kinds :
            /\ floor'[k] = AllBytes(k) /\ acc'[k] = 0 /\ AllBytes(k) \in Nat
            /\ last[k] \in Nat
    <2>1. \A k \in Kinds : AllBytes(k) \in Nat
      BY RecordsCount DEF AllCountable, Countable, AllBytes
    <2> QED BY <1>1, <2>1, TrafficBytes DEF Nothing, SamplesTyped
  <1>3. SamplesTyped'
    <2>1. floor' \in [Kinds -> Nat]
      BY <1>1, <1>2 DEF Traffic
    <2> QED BY <1>1, <2>1 DEF SamplesTyped, Nothing
  <1>4. ASSUME NEW k \in Kinds
        PROVE  /\ SumFunctionOnSet(CountedOf(k)', met') = 0
               /\ SumFunctionOnSet(BytesOf(k)', unseen') = AllBytes(k)
    BY <1>1, RestSums, SumNone DEF AllBytes
  <1> QED BY <1>1, <1>2, <1>3, <1>4, RestSums DEF Sampled

\* One record more: it moves from what is still to meet into the sum.
LEMMA MeetSampled ==
  ASSUME Recorded, SamplesTyped, Sampled, Meet
  PROVE  SamplesTyped' /\ Sampled'
  <1>1. PICK id \in DOMAIN connections \ met :
            /\ met' = met \cup {id} /\ unseen' = unseen \ {id}
            /\ acc' = [acc EXCEPT ![connections[id].kind] = @ + Counted(connections[id])]
    BY DEF Meet
  <1>2. /\ UNCHANGED <<connections, sampler, last, throughput_history, error_history, floor>>
        /\ sampler \in {"sum", "errors"}
    BY DEF Meet
  <1>3. connections[id] \in Records
    BY DEF Recorded
  <1>4. Counted(connections[id]) \in Nat
    BY <1>3 DEF Records, Counted, Bytes, Errors
  <1>5. SamplesTyped'
    <2>1. acc' \in [Kinds -> Nat]
      BY <1>1, <1>3, <1>4 DEF SamplesTyped, Records
    <2> QED BY <1>1, <1>2, <2>1 DEF SamplesTyped
  <1>6. ASSUME NEW k \in Kinds
        PROVE  /\ acc'[k] <= SumFunctionOnSet(CountedOf(k)', met')
               /\ sampler' = "sum" =>
                     floor'[k] <= acc'[k] + SumFunctionOnSet(BytesOf(k)', unseen')
    <2>1. PICK g : g = CountedOf(k)
      OBVIOUS
    <2>2. CountedOf(k)' = g /\ (sampler = "sum" => BytesOf(k)' = g /\ BytesOf(k) = g)
      BY <1>2, <2>1, RestSums DEF CountedOf
    <2>3. /\ IsFiniteSet(met') /\ IsFiniteSet(unseen) /\ IsFiniteSet(unseen') /\ IsFiniteSet(met)
          /\ \A i \in DOMAIN connections : g[i] \in Nat
      BY <1>1, <2>1, RecordsCount DEF AllCountable, Countable, CountedOf, SamplesTyped
    <2>4. acc'[k] = acc[k] + g[id] /\ acc[k] \in Nat /\ floor[k] \in Nat /\ g[id] \in Nat
      <3>1. g[id] = IF connections[id].kind = k THEN Counted(connections[id]) ELSE 0
        BY <1>2, <2>1 DEF CountedOf, BytesOf, ErrorsOf, Counted, Bytes, Errors
      <3>2. acc \in [Kinds -> Nat] /\ floor \in [Kinds -> Nat]
        BY DEF SamplesTyped
      <3> QED BY <1>1, <1>4, <3>1, <3>2
    <2>5. SumFunctionOnSet(g, met') = g[id] + SumFunctionOnSet(g, met)
      <3>1. met' \ {id} = met /\ id \in met' /\ \A i \in met' : g[i] \in Nat
        BY <1>1, <2>3 DEF SamplesTyped
      <3>2. PICK m : m = met'
        OBVIOUS
      <3>3. SumFunctionOnSet(g, m) = g[id] + SumFunctionOnSet(g, m \ {id})
        BY <2>3, <3>1, <3>2, SumWithout
      <3> QED BY <3>1, <3>2, <3>3
    <2>6. SumFunctionOnSet(g, unseen) =
            IF id \in unseen THEN g[id] + SumFunctionOnSet(g, unseen')
            ELSE SumFunctionOnSet(g, unseen')
      <3>1. CASE id \in unseen
        <4>1. \A i \in unseen : g[i] \in Nat
          BY <2>3 DEF SamplesTyped
        <4> QED BY <1>1, <2>3, <3>1, <4>1, SumWithout
      <3>2. CASE id \notin unseen
        <4>1. unseen' = unseen
          BY <1>1, <3>2
        <4> QED BY <3>2, <4>1
      <3> QED BY <3>1, <3>2
    <2>7. SumFunctionOnSet(g, met) \in Nat /\ SumFunctionOnSet(g, unseen') \in Nat
      <3>1. (\A i \in met : g[i] \in Nat) /\ (\A i \in unseen' : g[i] \in Nat)
        BY <1>1, <2>3 DEF SamplesTyped
      <3>2. PICK t : t = unseen'
        OBVIOUS
      <3>3. SumFunctionOnSet(g, t) \in Nat
        BY <2>3, <3>1, <3>2, SumNat
      <3> QED BY <2>3, <3>1, <3>2, <3>3, SumNat
    <2>8. /\ acc[k] <= SumFunctionOnSet(g, met)
          /\ sampler = "sum" => floor[k] <= acc[k] + SumFunctionOnSet(g, unseen)
      BY <2>1, <2>2 DEF Sampled
    <2> QED BY <1>2, <2>2, <2>4, <2>5, <2>6, <2>7, <2>8
  <1>7. \A k \in Kinds :
            /\ throughput_history[k] = last[k]
            /\ last[k] <= AllBytes(k)
            /\ error_history[k] <= AllErrors(k)
            /\ sampler = "sum" => last[k] <= floor[k]
    BY DEF Sampled
  <1>8. Sampled'
    BY <1>2, <1>6, <1>7, RestSums DEF Sampled
  <1> QED BY <1>5, <1>8

\* A pass is over: every record there was has been met.
LEMMA PassEnds ==
  ASSUME Recorded, SamplesTyped, Sampled, AllMet, NEW k \in Kinds
  PROVE  /\ sampler = "sum" =>
               floor[k] <= acc[k] /\ last[k] <= acc[k] /\ acc[k] <= AllBytes(k)
         /\ sampler = "errors" => acc[k] <= AllErrors(k)
  <1>1. unseen = {}
    BY DEF SamplesTyped, AllMet
  <1>2. /\ acc[k] \in Nat /\ last[k] \in Nat /\ floor[k] \in Nat
        /\ acc[k] <= SumFunctionOnSet(CountedOf(k), met)
        /\ sampler = "sum" =>
              last[k] <= floor[k] /\ floor[k] <= acc[k] + SumFunctionOnSet(BytesOf(k), unseen)
    BY DEF SamplesTyped, Sampled
  <1>3. SumFunctionOnSet(BytesOf(k), unseen) = 0
    BY <1>1, SumNone
  <1>4. /\ SumFunctionOnSet(BytesOf(k), met) <= AllBytes(k)
        /\ SumFunctionOnSet(ErrorsOf(k), met) <= AllErrors(k)
    <2>1. /\ IsFiniteSet(DOMAIN connections) /\ met \subseteq DOMAIN connections
          /\ \A i \in DOMAIN connections : BytesOf(k)[i] \in Nat /\ ErrorsOf(k)[i] \in Nat
      BY RecordsCount DEF AllCountable, Countable, SamplesTyped, Recorded
    <2>2. /\ \A i \in met : BytesOf(k)[i] \in Nat /\ BytesOf(k)[i] <= BytesOf(k)[i]
          /\ \A i \in met : ErrorsOf(k)[i] \in Nat /\ ErrorsOf(k)[i] <= ErrorsOf(k)[i]
      BY <2>1
    <2> QED BY <2>1, <2>2, SumGrows DEF AllBytes, AllErrors
  <1>5. /\ AllBytes(k) \in Nat /\ AllErrors(k) \in Nat
        /\ SumFunctionOnSet(BytesOf(k), met) \in Nat
        /\ SumFunctionOnSet(ErrorsOf(k), met) \in Nat
    BY RecordsCount DEF AllCountable, Countable, AllBytes, AllErrors, SamplesTyped
  <1>6. CountedOf(k) = IF sampler = "sum" THEN BytesOf(k) ELSE ErrorsOf(k)
    BY DEF CountedOf
  <1> QED BY <1>2, <1>3, <1>4, <1>5, <1>6

LEMMA CommitSampled ==
  ASSUME Recorded, SamplesTyped, Sampled, Commit \/ Skip
  PROVE  SamplesTyped' /\ Sampled'
  <1>1. /\ sampler = "sum" /\ AllMet /\ sampler' = "errors"
        /\ unseen' = DOMAIN connections /\ met' = {} /\ acc' = Nothing /\ floor' = Nothing
        /\ UNCHANGED <<connections, error_history>>
    BY DEF Commit, Skip, OnToErrors
  <1>2. \/ /\ last' = acc
           /\ throughput_history' =
                 [k \in Kinds |-> throughput_history[k] + SaturatingSub(acc[k], last[k])]
        \/ UNCHANGED <<last, throughput_history>>
    BY DEF Commit, Skip
  <1>3. \A k \in Kinds :
            /\ floor[k] <= acc[k] /\ last[k] <= acc[k] /\ acc[k] <= AllBytes(k)
            /\ acc[k] \in Nat /\ last[k] \in Nat /\ throughput_history[k] = last[k]
            /\ last[k] <= AllBytes(k) /\ error_history[k] <= AllErrors(k)
    BY <1>1, PassEnds DEF SamplesTyped, Sampled
  <1>4. /\ last' \in [Kinds -> Nat] /\ throughput_history' \in [Kinds -> Nat]
        /\ \A k \in Kinds : throughput_history'[k] = last'[k] /\ last'[k] <= AllBytes(k)
    <2>1. \A k \in Kinds :
              throughput_history[k] + SaturatingSub(acc[k], last[k]) = acc[k]
      BY <1>3 DEF SaturatingSub
    <2> QED BY <1>2, <1>3, <2>1 DEF SamplesTyped
  <1>5. SamplesTyped'
    BY <1>1, <1>4 DEF SamplesTyped, Nothing
  <1>6. \A k \in Kinds : SumFunctionOnSet(CountedOf(k)', met') = 0 /\ acc'[k] = 0
    BY <1>1, SumNone DEF Nothing
  <1> QED BY <1>1, <1>3, <1>4, <1>5, <1>6, RestSums DEF Sampled

LEMMA ErrorsSampled ==
  ASSUME Recorded, SamplesTyped, Sampled, CommitErrors
  PROVE  SamplesTyped' /\ Sampled'
  <1>1. /\ sampler = "errors" /\ AllMet /\ sampler' = "tick"
        /\ unseen' = {} /\ met' = {} /\ acc' = Nothing /\ error_history' = acc
        /\ UNCHANGED <<connections, last, throughput_history, floor>>
    BY DEF CommitErrors
  <1>2. \A k \in Kinds :
            /\ acc[k] <= AllErrors(k)
            /\ throughput_history[k] = last[k] /\ last[k] <= AllBytes(k)
    BY <1>1, PassEnds DEF Sampled
  <1>3. SamplesTyped'
    BY <1>1 DEF SamplesTyped, Nothing
  <1>4. \A k \in Kinds : SumFunctionOnSet(CountedOf(k)', met') = 0 /\ acc'[k] = 0
    BY <1>1, SumNone DEF Nothing
  <1> QED BY <1>1, <1>2, <1>3, <1>4, RestSums DEF Sampled

-----------------------------------------------------------------------------
\* At main's stages: what the report has copied is within what the records hold,
\* and holds still once the simulation has ended by itself.
Copied ==
    /\ natural =>
        /\ main # "wait" => \A u \in Users : user[u] = "done"
        /\ main \in {"throughput", "errors", "exit"} => report.connections = connections
    /\ main \in {"errors", "exit"} =>
          \A k \in Kinds : report.throughput[k] \in Nat /\ report.throughput[k] <= AllBytes(k)
    /\ main = "exit" =>
          \A k \in Kinds : report.errors[k] \in Nat /\ report.errors[k] <= AllErrors(k)

ReportTyped ==
    /\ main \in {"wait", "copy", "throughput", "errors", "exit"}
    /\ main = "wait" => ~natural
    /\ DOMAIN report = {"connections", "throughput", "errors"}
    /\ report = [f \in DOMAIN report |-> report[f]]

ClientInv == Recorded /\ SamplesTyped /\ Sampled /\ ReportTyped /\ Copied

LEMMA CopiedStays ==
  ASSUME Recorded, Recorded', Grown, ReportTyped, Copied, UNCHANGED reporting,
         natural /\ main # "wait" => UNCHANGED <<user, connections>>
  PROVE  ReportTyped' /\ Copied'
  <1>1. UNCHANGED <<main, report, natural>>
    BY DEF reporting
  <1>2. ReportTyped'
    BY <1>1 DEF ReportTyped
  <1>3. ASSUME NEW k \in Kinds
        PROVE  /\ AllBytes(k) \in Nat /\ AllBytes(k)' \in Nat /\ AllBytes(k) <= AllBytes(k)'
               /\ AllErrors(k) \in Nat /\ AllErrors(k)' \in Nat /\ AllErrors(k) <= AllErrors(k)'
    <2>1. AllBytes(k) <= AllBytes(k)' /\ AllErrors(k) <= AllErrors(k)'
      BY SumsGrow DEF Grown, AllBytes, AllErrors
    <2>2. AllBytes(k) \in Nat /\ AllErrors(k) \in Nat
      BY RecordsCount DEF AllCountable, Countable, AllBytes, AllErrors
    <2>3. AllBytes(k)' \in Nat /\ AllErrors(k)' \in Nat
      <3>1. (Recorded => AllCountable)'
        BY RecordsCount, PTL
      <3>2. Countable(k)'
        BY <3>1 DEF AllCountable
      <3> QED BY <3>2 DEF Countable, AllBytes, AllErrors
    <2> QED BY <2>1, <2>2, <2>3
  <1>4. ~natural \/ main # "wait"
    BY DEF ReportTyped
  <1>5. (main \in {"errors", "exit"})' =>
            \A k \in Kinds : report'.throughput[k] \in Nat /\ report'.throughput[k] <= AllBytes(k)'
    BY <1>1, <1>3 DEF Copied
  <1>6. (main = "exit")' =>
            \A k \in Kinds : report'.errors[k] \in Nat /\ report'.errors[k] <= AllErrors(k)'
    BY <1>1, <1>3 DEF Copied
  <1>7. Copied'
    BY <1>1, <1>4, <1>5, <1>6 DEF Copied
  <1> QED BY <1>2, <1>7

LEMMA MainCopied ==
  ASSUME SamplesTyped, Sampled, ReportTyped, Copied, MainStep \/ Interrupted
  PROVE  ReportTyped' /\ Copied'
  <1>1. UNCHANGED <<user, connections, sampling>>
    BY DEF MainStep, SimulationEnds, Interrupted, Stop, CopyRecords, CopyThroughput, CopyErrors
  <1>2. \A k : AllBytes(k)' = AllBytes(k) /\ AllErrors(k)' = AllErrors(k)
    BY <1>1, RestSums
  <1>3. CASE SimulationEnds \/ Interrupted
    BY <1>1, <1>3 DEF SimulationEnds, Interrupted, Stop, ReportTyped, Copied
  <1>4. CASE CopyRecords
    BY <1>1, <1>4 DEF CopyRecords, ReportTyped, Copied
  <1>5. CASE CopyThroughput
    <2>1. \A k \in Kinds : throughput_history[k] \in Nat /\ throughput_history[k] <= AllBytes(k)
      BY DEF SamplesTyped, Sampled
    <2> QED BY <1>1, <1>2, <1>5, <2>1 DEF CopyThroughput, ReportTyped, Copied
  <1>6. CASE CopyErrors
    <2>1. \A k \in Kinds : error_history[k] \in Nat /\ error_history[k] <= AllErrors(k)
      BY DEF SamplesTyped, Sampled
    <2> QED BY <1>1, <1>2, <1>6, <2>1 DEF CopyErrors, ReportTyped, Copied
  <1> QED BY <1>3, <1>4, <1>5, <1>6 DEF MainStep

LEMMA ClientInvInit == Init => ClientInv
  <1> SUFFICES ASSUME Init PROVE ClientInv
    OBVIOUS
  <1>1. ReportTyped /\ Copied
    BY DEF Init, ReportTyped, Copied, NoReport
  <1> QED BY <1>1, RecordedInit, SampledInit DEF ClientInv

LEMMA ClientInvNext == ClientInv /\ [Next]_vars => ClientInv'
  <1> SUFFICES ASSUME ClientInv, [Next]_vars PROVE ClientInv'
    OBVIOUS
  <1> USE DEF ClientInv
  <1>1. CASE UNCHANGED vars
    <2>1. UNCHANGED <<now, user, connections, made, sampling, reporting>>
      BY <1>1 DEF vars
    <2>2. Recorded' /\ Grown
      BY <2>1, NothingRecorded
    <2> QED BY <2>1, <2>2, SampledStays, CopiedStays
  <1>2. ASSUME NEW u \in Users, UserStep(u) PROVE ClientInv'
    <2>1. Recorded' /\ Grown
      BY <1>2, UserRecorded
    <2>2. UNCHANGED <<sampling, reporting>> /\ user[u] # "done"
      BY <1>2 DEF UserStep, Begin, Think, Act, Quit, Leave, Transfer, RecordError,
                  EndRecord, Abandon, NextPage, ActivityOver, User
    <2>3. ~natural \/ main = "wait"
      BY <2>2 DEF Copied
    <2> QED BY <2>1, <2>2, <2>3, SampledStays, CopiedStays
  <1>3. CASE (\E u \in Users : StopFires(u)) \/ Advance
    <2>1. Recorded' /\ Grown /\ UNCHANGED <<user, connections>>
      BY <1>3, OthersRecorded
    <2>2. UNCHANGED <<sampling, reporting>>
      BY <1>3 DEF StopFires, Advance
    <2> QED BY <2>1, <2>2, SampledStays, CopiedStays
  <1>4. CASE MainStep \/ Interrupted
    <2>1. Recorded' /\ Grown /\ UNCHANGED <<user, connections>>
      BY <1>4, OthersRecorded
    <2>2. UNCHANGED sampling
      BY <1>4 DEF MainStep, SimulationEnds, Interrupted, Stop, CopyRecords,
                  CopyThroughput, CopyErrors
    <2> QED BY <1>4, <2>1, <2>2, SampledStays, MainCopied
  <1>5. CASE SamplerStep
    <2>1. Recorded' /\ Grown /\ UNCHANGED <<user, connections>>
      BY <1>5, OthersRecorded
    <2>2. UNCHANGED reporting
      BY <1>5 DEF SamplerStep, SamplerTick, Meet, Commit, Skip, CommitErrors
    <2>3. SamplesTyped' /\ Sampled'
      BY <1>5, TickSampled, MeetSampled, CommitSampled, ErrorsSampled DEF SamplerStep
    <2> QED BY <2>1, <2>2, <2>3, CopiedStays
  <1> QED BY <1>1, <1>2, <1>3, <1>4, <1>5 DEF Next

LEMMA ClientInvAlways == Spec => []ClientInv
  BY ClientInvInit, ClientInvNext, PTL DEF Spec

\* The throughput samples account for the bytes in the records, whatever users
\* write to the collector's map while a pass reads it (metrics.rs:214-254): the
\* total remembered never falls and never exceeds what the records hold, so that
\* no saturating subtraction hides a difference.
THEOREM SamplesAlwaysAccount == Spec => []SamplesAccount
  <1>1. ClientInv => SamplesAccount
    BY PassEnds, TrafficBytes DEF ClientInv, Sampled, SamplesAccount
  <1> QED BY <1>1, ClientInvAlways, PTL

\* A report has no more sampled bytes or errors than there were, wherever the
\* sampler was when it was aborted and whatever users wrote meanwhile; one made at
\* the natural end has every record, and no more than these show
\* (main.rs:247-324).
THEOREM ReportAlwaysAdds == Spec => []ReportAdds
  <1>1. ClientInv => ReportAdds
    <2> SUFFICES ASSUME ClientInv, main = "exit", NEW k \in Kinds
                 PROVE  /\ report.throughput[k] <= Traffic(connections)[k]
                        /\ report.errors[k] <= Total(Errors, connections, k)
                        /\ natural =>
                            /\ DOMAIN report.connections = DOMAIN connections
                            /\ report.throughput[k] <= Traffic(report.connections)[k]
                            /\ report.errors[k] <= Total(Errors, report.connections, k)
      BY DEF ReportAdds
    <2>1. /\ natural => report.connections = connections
          /\ report.throughput[k] <= AllBytes(k) /\ report.errors[k] <= AllErrors(k)
      BY DEF ClientInv, Copied
    <2> QED BY <2>1, TrafficBytes, TotalErrors
  <1> QED BY <1>1, ClientInvAlways, PTL
=============================================================================
