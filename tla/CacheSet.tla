------------------------------ MODULE CacheSet ------------------------------
(***************************************************************************)
(* One set of the functional TLB / promotion-candidate-cache simulator:    *)
(* class CacheSet of pin3.7/source/tools/PromotionCache/tlb.h.             *)
(*                                                                         *)
(* The set owns a fixed pool of lines.  Every line is either on the free   *)
(* stack or on the doubly linked list between the two sentinels `head' and *)
(* `tail'; addr_map finds the line of a tag.  The list is the replacement  *)
(* order: the line before `tail' is the next victim.                       *)
(*                                                                         *)
(* Abstractions.  The linked list is the sequence of its lines, so         *)
(* deleteNode is RemoveAt and the two insertion routines are InsertAt at   *)
(* different positions.  The free stack is a set, since which free line is *)
(* taken makes no difference to a caller.  A null entry of addr_map (which *)
(* operator[] leaves behind on a miss) and a missing one are both NULL.    *)
(* `dirty' is left out: every caller passes isLoad = true.                 *)
(*                                                                         *)
(* A definition marked "Faulty" is a plausible mistake in the code below   *)
(* it; put in its place, it breaks one of the properties.                  *)
(***************************************************************************)
EXTENDS Integers, FiniteSets, SequencesExt

CONSTANTS
    Tag,          \* tags that callers use
    Line,         \* the `entries' array: associativity = Cardinality(Line)
    Offset,       \* values of the in-page offset
    Policy,       \* eviction_policy: 0 = LRU (the TLBs), 2 = LFU (the PCC)
    MaxFreq,      \* MAX_FREQ
    Disciplined,  \* TRUE: callers insert a tag only after access missed
    NULL

ASSUME LineAssumption == IsFiniteSet(Line) /\ Line # {} /\ NULL \notin Line
ASSUME PolicyAssumption == Policy \in {0, 2} /\ Disciplined \in BOOLEAN
ASSUME FreqAssumption == MaxFreq \in Nat /\ MaxFreq >= 1
ASSUME OffsetAssumption == Offset # {} /\ Tag # {}

VARIABLES
    list,         \* the lines from head->next to tail->prev
    addr,         \* CacheLine::addr of every line
    offset,       \* CacheLine::offset
    freq,         \* CacheLine::freq
    addr_map,     \* tag -> line, or NULL
    freeEntries   \* the lines not on the list

vars == <<list, addr, offset, freq, addr_map, freeEntries>>

Lines(s) == {s[i] : i \in DOMAIN s}

(***************************************************************************)
(* The replacement order.                                                  *)
(***************************************************************************)
\* Faulty: walks past lines used equally often, too.
LfuPositionPastEqual(s, c, f) ==
    Min({i \in 1..(Len(s) + 1) : i = Len(s) + 1 \/ ~(f[c] <= f[s[i]])})

\* insertLFU walks from the front past every line used strictly more often
\* than c; the frequency 0 of the tail sentinel stops it at the end.
LfuPosition(s, c, f) ==
    Min({i \in 1..(Len(s) + 1) : i = Len(s) + 1 \/ ~(f[c] < f[s[i]])})

\* Faulty: insertFront whatever the policy; insertion before tail.
PlaceFront(s, c, f) == InsertAt(s, 1, c)
PlaceBack(s, c, f) == InsertAt(s, Len(s) + 1, c)

\* insertFront or insertLFU, by policy.
Place(s, c, f) ==
    InsertAt(s, IF Policy = 0 THEN 1 ELSE LfuPosition(s, c, f), c)

\* deleteNode.
Position(s, c) == CHOOSE i \in DOMAIN s : s[i] = c
DeleteNode(s, c) == RemoveAt(s, Position(s, c))

\* Faulty: the loop of decay_freqs starts one line late.
DecayAllButFirst(s, f) ==
    [l \in Line |-> IF l \in Lines(Tail(s)) THEN f[l] \div 2 ELSE f[l]]

\* decay_freqs halves the frequency of every line on the list s.
DecayFreqs(s, f) ==
    [l \in Line |-> IF l \in Lines(s) THEN f[l] \div 2 ELSE f[l]]

(***************************************************************************)
(* The operations.                                                         *)
(***************************************************************************)
\* Before the first insertion the fields addr and offset of a line are
\* never read, so they may have any value.
Init ==
    /\ list = <<>>
    /\ addr \in [Line -> Tag]
    /\ offset \in [Line -> Offset]
    /\ freq = [l \in Line |-> 0]
    /\ addr_map = [t \in Tag |-> NULL]
    /\ freeEntries = Line

\* Faulty: the hit is counted first and the line placed by the new count;
\* the line stays where it is.
AccessCountsFirst(t, o) ==
    /\ addr_map[t] # NULL
    /\ LET c == addr_map[t]
           counted == [freq EXCEPT ![c] = @ + 1]
       IN  /\ list' = Place(DeleteNode(list, c), c, counted)
           /\ offset' = [offset EXCEPT ![c] = o]
           /\ freq' = IF counted[c] = MaxFreq
                      THEN DecayFreqs(list', counted)
                      ELSE counted
    /\ UNCHANGED <<addr, addr_map, freeEntries>>
AccessInPlace(t, o) ==
    /\ addr_map[t] # NULL
    /\ offset' = [offset EXCEPT ![addr_map[t]] = o]
    /\ UNCHANGED <<list, freq, addr, addr_map, freeEntries>>

\* access that hits: the line is placed by the frequency it had BEFORE the
\* hit, and only then counted.  (An access that misses changes nothing.)
Access(t, o) ==
    /\ addr_map[t] # NULL
    /\ LET c == addr_map[t]
           counted == [freq EXCEPT ![c] = @ + 1]
       IN  /\ list' = Place(DeleteNode(list, c), c, freq)
           /\ offset' = [offset EXCEPT ![c] = o]
           /\ freq' = IF counted[c] = MaxFreq
                      THEN DecayFreqs(list', counted)
                      ELSE counted
    /\ UNCHANGED <<addr, addr_map, freeEntries>>

\* Faulty: a recycled line keeps its frequency.
FillKeepsFreq(t, o, c, rest, map) ==
    /\ addr_map' = [map EXCEPT ![t] = c]
    /\ addr' = [addr EXCEPT ![c] = t]
    /\ offset' = [offset EXCEPT ![c] = o]
    /\ freq' = freq
    /\ list' = Place(rest, c, freq)

\* The common end of insert: line c takes tag t and joins the lines of rest.
Fill(t, o, c, rest, map) ==
    /\ addr_map' = [map EXCEPT ![t] = c]
    /\ addr' = [addr EXCEPT ![c] = t]
    /\ offset' = [offset EXCEPT ![c] = o]
    /\ freq' = [freq EXCEPT ![c] = 0]
    /\ list' = Place(rest, c, freq')

\* Faulty: the line is not popped from the free stack; the caller does not
\* look the tag up first.
InsertFreeNoPop(t, o) ==
    /\ Disciplined => addr_map[t] = NULL
    /\ \E c \in freeEntries : Fill(t, o, c, list, addr_map)
    /\ UNCHANGED freeEntries
InsertFreeUnchecked(t, o) ==
    \E c \in freeEntries :
        /\ Fill(t, o, c, list, addr_map)
        /\ freeEntries' = freeEntries \ {c}

\* insert while a line is free.
InsertFree(t, o) ==
    /\ Disciplined => addr_map[t] = NULL
    /\ \E c \in freeEntries :
          /\ Fill(t, o, c, list, addr_map)
          /\ freeEntries' = freeEntries \ {c}

\* Faulty: the victim's tag stays in the map; the line after head is recycled.
InsertEvictKeepsTag(t, o) ==
    /\ Disciplined => addr_map[t] = NULL
    /\ freeEntries = {}
    /\ LET c == list[Len(list)] IN Fill(t, o, c, DeleteNode(list, c), addr_map)
    /\ UNCHANGED freeEntries
InsertEvictFirst(t, o) ==
    /\ Disciplined => addr_map[t] = NULL
    /\ freeEntries = {}
    /\ LET c == list[1]
       IN  Fill(t, o, c, DeleteNode(list, c), [addr_map EXCEPT ![addr[c]] = NULL])
    /\ UNCHANGED freeEntries

\* insert into a full set: the line before tail is reused.  The map entry
\* erased is the one of the victim's tag, whichever line it leads to.
InsertEvict(t, o) ==
    /\ Disciplined => addr_map[t] = NULL
    /\ freeEntries = {}
    /\ LET c == list[Len(list)]
       IN  Fill(t, o, c, DeleteNode(list, c), [addr_map EXCEPT ![addr[c]] = NULL])
    /\ UNCHANGED freeEntries

\* Faulty: the line is freed but not unlinked; its tag stays in the map.
EvictKeepsLink(t) ==
    /\ addr_map[t] # NULL
    /\ addr_map' = [addr_map EXCEPT ![addr[addr_map[t]]] = NULL]
    /\ freeEntries' = freeEntries \cup {addr_map[t]}
    /\ UNCHANGED <<list, addr, offset, freq>>
EvictKeepsTag(t) ==
    /\ addr_map[t] # NULL
    /\ list' = DeleteNode(list, addr_map[t])
    /\ freeEntries' = freeEntries \cup {addr_map[t]}
    /\ UNCHANGED <<addr_map, addr, offset, freq>>

\* evict; every caller does so only after access or get_set found the tag.
Evict(t) ==
    /\ addr_map[t] # NULL
    /\ LET c == addr_map[t]
       IN  /\ addr_map' = [addr_map EXCEPT ![addr[c]] = NULL]
           /\ list' = DeleteNode(list, c)
           /\ freeEntries' = freeEntries \cup {c}
    /\ UNCHANGED <<addr, offset, freq>>

\* flush.
Flush ==
    /\ list # <<>>
    /\ addr_map' = [t \in Tag |-> IF \E l \in Lines(list) : addr[l] = t
                                  THEN NULL ELSE addr_map[t]]
    /\ list' = <<>>
    /\ freeEntries' = freeEntries \cup Lines(list)
    /\ UNCHANGED <<addr, offset, freq>>

Next ==
    \/ \E t \in Tag, o \in Offset :
          Access(t, o) \/ InsertFree(t, o) \/ InsertEvict(t, o)
    \/ \E t \in Tag : Evict(t)
    \/ Flush

Spec == Init /\ [][Next]_vars
-----------------------------------------------------------------------------
(***************************************************************************)
(* Properties.                                                             *)
(***************************************************************************)
\* Every field keeps its type; a frequency at rest is below MAX_FREQ (so an
\* unsigned short never wraps), because the hit that reaches it halves every
\* frequency of the list before access returns.
TypeOK ==
    /\ list \in Seq(Line)
    /\ addr \in [Line -> Tag]
    /\ offset \in [Line -> Offset]
    /\ freq \in [Line -> 0..(MaxFreq - 1)]
    /\ addr_map \in [Tag -> Line \cup {NULL}]
    /\ freeEntries \subseteq Line

\* No line is on the list twice, and each line is either on the list or
\* free.  Then deleteNode never unlinks a line that is not linked, and the
\* assert(c!=head) of insert (tlb.h:103) never fails: a set with no free
\* line has a line before tail.
Partitioned ==
    /\ \A i, j \in DOMAIN list : list[i] = list[j] => i = j
    /\ \A l \in Line : l \in freeEntries <=> l \notin Lines(list)

\* What addr_map finds is a line on the list that holds that very tag: no
\* hit on a line that was recycled for another tag.
MapSound ==
    \A t \in Tag : addr_map[t] # NULL =>
        /\ addr_map[t] \in Lines(list)
        /\ addr[addr_map[t]] = t

\* Under callers that insert only after a miss (PCC, L2 TLB, 2MB L1 TLB)
\* every listed line is the one its tag finds: no tag occupies two lines,
\* and get_set / getFreq / evict of summarize_promotions agree.
NoGhost ==
    Disciplined => \A l \in Lines(list) : addr_map[addr[l]] = l

\* Under LFU the list is ordered by frequency, most used first, even though
\* access places a line before it counts the hit.
Sorted ==
    Policy = 2 =>
        \A i, j \in DOMAIN list : i < j => freq[list[i]] >= freq[list[j]]

\* A tag that an insertion of another tag pushes out of the PCC was used no
\* more often than any tag that stays.
VictimIsLeastUsed ==
    [][ \A t, u \in Tag, o \in Offset :
           /\ Policy = 2 /\ Disciplined
           /\ InsertEvict(t, o)
           /\ addr_map[u] # NULL /\ addr_map'[u] = NULL
           => \A v \in Tag : addr_map[v] # NULL =>
                 freq[addr_map[u]] <= freq[addr_map[v]] ]_vars
=============================================================================
