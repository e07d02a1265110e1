------------------------------ MODULE LineSet -------------------------------
(***************************************************************************)
(* A CacheSet seen from its callers, as a value: the sequence of its       *)
(* occupied lines in replacement order.  A line records its tag, its       *)
(* frequency, the offset of the last access and whether addr_map still     *)
(* leads to it (`live').  CacheSetRefinement shows that class CacheSet     *)
(* behaves like these operators; the simulator modules are built on them.  *)
(*                                                                         *)
(* The frequency is kept at 0 under LRU, where nothing reads it.           *)
(***************************************************************************)
EXTENDS Integers, SequencesExt

\* addr_map[t], as a position: where access finds tag t, if it does.
Holds(s, t) == \E i \in DOMAIN s : s[i].live /\ s[i].tag = t
Find(s, t) == CHOOSE i \in DOMAIN s : s[i].live /\ s[i].tag = t

\* addr_map.erase(t): whichever line holds t is no longer found.
Unmap(s, t) ==
    [i \in DOMAIN s |-> IF s[i].tag = t THEN [s[i] EXCEPT !.live = FALSE] ELSE s[i]]

\* Faulty: a new line goes behind lines used equally often.
PlaceLinePastEqual(policy, s, e) ==
    InsertAt(s,
             IF policy = 0 THEN 1
             ELSE Min({i \in 1..(Len(s) + 1) : i = Len(s) + 1 \/ ~(e.freq <= s[i].freq)}),
             e)

\* insertFront (policy 0) and insertLFU (policy 2).
PlaceLine(policy, s, e) ==
    InsertAt(s,
             IF policy = 0 THEN 1
             ELSE Min({i \in 1..(Len(s) + 1) : i = Len(s) + 1 \/ ~(e.freq < s[i].freq)}),
             e)

\* CacheSet::decay_freqs.
Decay(s) == [i \in DOMAIN s |-> [s[i] EXCEPT !.freq = @ \div 2]]

\* CacheSet::access, which changes nothing on a miss.
AccessSet(policy, max, s, t, o) ==
    IF ~Holds(s, t) THEN s
    ELSE LET e == [s[Find(s, t)] EXCEPT !.offset = o]
             rest == RemoveAt(s, Find(s, t))
             placed == PlaceLine(policy, rest, e)
             at == Find(placed, t)
             counted == [placed EXCEPT ![at].freq = IF policy = 2 THEN @ + 1 ELSE 0]
         IN  IF policy = 2 /\ counted[at].freq = max THEN Decay(counted) ELSE counted

\* CacheSet::insert; with no free line the last one is recycled.
InsertSet(policy, assoc, s, t, o) ==
    LET rest == IF Len(s) = assoc THEN Unmap(Front(s), Last(s).tag) ELSE s
    IN  PlaceLine(policy, Unmap(rest, t), [tag |-> t, freq |-> 0, offset |-> o, live |-> TRUE])

\* CacheSet::evict of a tag that was found.
EvictSet(s, t) == RemoveAt(s, Find(s, t))

\* access followed, on a hit, by evict, for every tag of N.
EvictEach(s, N) ==
    LET kept[i \in 0..Len(s)] ==
            IF i = 0 THEN <<>>
            ELSE IF s[i].live /\ s[i].tag \in N THEN kept[i - 1]
            ELSE Append(kept[i - 1], s[i])
    IN  kept[Len(s)]
=============================================================================
