----------------------------- MODULE Candidates -----------------------------
(***************************************************************************)
(* The scripts that turn the log of a simulation into the files for the    *)
(* promoter: pin3.7/source/tools/PromotionCache/get_promotions_mt.py,      *)
(* get_promotions.py and get_demotions.py.                                 *)
(*                                                                         *)
(* A log has one entry per summary: for each thread, the candidates it     *)
(* listed, in their order.  The file is a sequence of lines <time, addr>.  *)
(* POLICY is 0 in every run of the multi-threaded script (the argument is  *)
(* stored in another variable), so only the round robin is modelled.       *)
(***************************************************************************)
EXTENDS Integers, SequencesExt

CONSTANTS
    Logs,        \* time -> thread -> sequence of [addr, cache_freq]
    Limits       \* the values of promotion_limit

Candidate == [addr : Nat, cache_freq : Nat]

ASSUME LimitsAssumption == Limits \subseteq Nat
ASSUME LogsAssumption ==
    \A l \in Logs : LET threads == Cardinality(DOMAIN l[1])
                   IN  l # <<>> /\ threads \in Nat \ {0} /\ l \in Seq([1..threads -> Seq(Candidate)])

VARIABLES
    log, promotion_limit,     \* the input: never change
    time,                     \* of the loop over the times
    candidates,               \* candidates[time]: what is left of it
    turn,                     \* the thread whose turn it is
    unique_candidates, to_promote,
    promotion_file,
    finished

cvars == <<log, promotion_limit, time, candidates, turn, unique_candidates,
           to_promote, promotion_file, finished>>
input == <<log, promotion_limit>>

Tid == DOMAIN log[1]

CInit ==
    /\ log \in Logs
    /\ promotion_limit \in Limits
    /\ time = 1 /\ candidates = log[1] /\ turn = 1
    /\ unique_candidates = {} /\ to_promote = {}
    /\ promotion_file = <<>> /\ finished = FALSE
-----------------------------------------------------------------------------
done_promoting == unique_candidates # {} /\ Cardinality(unique_candidates) >= promotion_limit
Exhausted == \A t \in Tid : candidates[t] = <<>>
TurnAfter(t) == (t % Cardinality(Tid)) + 1

\* Faulty: a region that was promoted at an earlier time is promoted again.
TakeTurnRepeats ==
    /\ ~finished /\ ~done_promoting /\ ~Exhausted
    /\ IF candidates[turn] = <<>> THEN UNCHANGED <<candidates, unique_candidates, to_promote>>
       ELSE LET addr == Head(candidates[turn]).addr
            IN  /\ candidates' = [candidates EXCEPT ![turn] = Tail(@)]
                /\ unique_candidates' = unique_candidates \cup {addr}
                /\ to_promote' = to_promote \cup {addr}
    /\ turn' = TurnAfter(turn)
    /\ UNCHANGED <<input, time, promotion_file, finished>>

\* One turn of the round robin: a thread that has candidates left gives up
\* its first one, and promote(addr) keeps it if it is new.
TakeTurn ==
    /\ ~finished /\ ~done_promoting /\ ~Exhausted
    /\ IF candidates[turn] = <<>> THEN UNCHANGED <<candidates, unique_candidates, to_promote>>
       ELSE LET addr == Head(candidates[turn]).addr
            IN  /\ candidates' = [candidates EXCEPT ![turn] = Tail(@)]
                /\ unique_candidates' = unique_candidates \cup {addr}
                /\ to_promote' = to_promote \cup ({addr} \ unique_candidates)
    /\ turn' = TurnAfter(turn)
    /\ UNCHANGED <<input, time, promotion_file, finished>>

\* to_promote.sort(), one line for each, and to_promote = [].
Kth(addrs, k) == CHOOSE a \in addrs : Cardinality({b \in addrs : b < a}) = k - 1
Lines(now, addrs) == [k \in 1..Cardinality(addrs) |-> [time |-> now, addr |-> Kth(addrs, k)]]

\* The end of the loop at one time, and the start of the next unless
\* done_promoting.
EndTime ==
    /\ ~finished /\ (done_promoting \/ Exhausted)
    /\ promotion_file' = promotion_file \o Lines(time, to_promote)
    /\ to_promote' = {}
    /\ finished' = (done_promoting \/ time = Len(log))
    /\ IF finished' THEN UNCHANGED <<time, candidates>>
       ELSE time' = time + 1 /\ candidates' = log[time + 1]
    /\ turn' = 1
    /\ UNCHANGED <<input, unique_candidates>>

CNext == TakeTurn \/ EndTime
-----------------------------------------------------------------------------
\* get_demotions.py, which is run on the log of a single thread: a region is
\* demoted when it is listed for the second time, not counting the times it
\* had no hits in the PCC (cache_freq 0).  (A summary lists a region once: the
\* tags in a PCC are distinct.)
Listed(k, addr) == \E i \in DOMAIN log[k][1] : log[k][1][i].addr = addr /\ log[k][1][i].cache_freq > 0
Addr == UNION {{log[k][1][i].addr : i \in DOMAIN log[k][1]} : k \in DOMAIN log}
DemotedAt(k) == {a \in Addr : Listed(k, a) /\ Cardinality({j \in 1..k : Listed(j, a)}) = 2}
demotion_file ==
    IF Cardinality(Tid) > 1 THEN <<>>
    ELSE FlattenSeq([k \in DOMAIN log |-> Lines(k, DemotedAt(k))])
-----------------------------------------------------------------------------
\* The candidates <<time, place, thread>> of a log, and their order: by time,
\* then by their place in their thread's list, then by thread.
Entries(l) == UNION {{<<k, i, t>> : i \in DOMAIN l[k][t]} : k \in DOMAIN l, t \in DOMAIN l[1]}
AddrOf(l, c) == l[c[1]][c[3]][c[2]].addr
Before(c, d) ==
    \/ c[1] < d[1]
    \/ c[1] = d[1] /\ c[2] < d[2]
    \/ c[1] = d[1] /\ c[2] = d[2] /\ c[3] < d[3]

\* Those whose region comes for the first time, and of these the first ones.
Firsts(l) ==
    LET all == Entries(l)
    IN  {c \in all : \A d \in all : AddrOf(l, d) = AddrOf(l, c) => c = d \/ Before(c, d)}
Chosen(l, limit) ==
    LET firsts == Firsts(l)
    IN  {c \in firsts : Cardinality({d \in firsts : Before(d, c)}) < limit}

\* The selection against a reference: the file has the candidates that come
\* for the first time in this order, up to the limit (but at least one), at
\* their time.  A candidate that another thread had before costs its thread the
\* turn: what this does to the promised evenness is EvenlyDistributed of
\* SelectionHistory.  (A log of one thread is what get_promotions.py handles,
\* with this result.)
SelectionExact ==
    LET chosen == Chosen(log, IF promotion_limit = 0 THEN 1 ELSE promotion_limit)
    IN  finished =>
          promotion_file = FlattenSeq([k \in DOMAIN log |->
                              Lines(k, {AddrOf(log, c) : c \in {c \in chosen : c[1] = k}})])
=============================================================================
