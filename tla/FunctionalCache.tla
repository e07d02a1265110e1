-------------------------- MODULE FunctionalCache ---------------------------
(***************************************************************************)
(* How class FunctionalCache (tlb.h) takes an address apart: with bit      *)
(* masks, at a page offset chosen by the page size of the call, and with   *)
(* the set count rounded down to a power of two.                           *)
(*                                                                         *)
(* The state is the outcome of the last lookup.  Words have Width bits (64 *)
(* in the code).  extract(63, ...) shifts 1 by the full width, which C++   *)
(* leaves undefined; compilers yield 1 (the x86 shift) or 0 (folding).     *)
(***************************************************************************)
EXTENDS Integers, Bitwise, FiniteSetsExt

CONSTANTS
    Width,          \* bits of a uint64_t
    LogLine,        \* log2 of cache_line_size
    LogHuge,        \* log2(HUGE_PAGE_SIZE)
    SetCounts       \* values of set_count: one per cache of the simulator

ASSUME WidthAssumption ==
    /\ {Width, LogLine, LogHuge} \cup SetCounts \subseteq Nat \ {0}
    /\ LogLine <= LogHuge /\ \A n \in SetCounts : n * 2^LogHuge <= 2^Width

Word == 0..(2^Width - 1)

VARIABLES
    set_count,             \* line_count / assoc, fixed by the constructor
    address, is2M,         \* the arguments of the last call
    tag, setid, offset,    \* what it derived from them
    evictedAddr            \* what insert reports when it recycles a line
                           \* of that tag in that set

vars == <<set_count, address, is2M, tag, setid, offset, evictedAddr>>

\* (uint64_t)1 << n.
Shift(n) == IF n < Width THEN {2^n} ELSE {0, 1}

\* The integer part of log2(n), as the constructor stores it.
Log2(n) == Max({k \in 0..Width : 2^k <= n})

log_set_count == Log2(set_count)

\* Faulty: the bit `max' is left out.
ExtractExclusive(maxbit, min, a) ==
    LET maxmask == (maxbit \div 2 - 1) % 2^Width
        minmask == 2^min - 1
        mask == (maxmask - minmask) % 2^Width
    IN  (a & mask) \div 2^min

\* extract(max, min, a), inclusive; maxbit is the outcome of 1 << (max + 1).
Extract(maxbit, min, a) ==
    LET maxmask == (maxbit - 1) % 2^Width
        minmask == 2^min - 1
        mask == (maxmask - minmask) % 2^Width
    IN  (a & mask) \div 2^min

\* The page number of an evicted line.  Faulty: tag and set swapped.
RecomposeSwapped(t, s) == (s * set_count + t) % 2^Width
Recompose(t, s) == (t * set_count + s) % 2^Width

Init ==
    /\ set_count \in SetCounts
    /\ address = 0 /\ is2M = FALSE
    /\ tag = 0 /\ setid = 0 /\ offset = 0 /\ evictedAddr = 0

\* The common beginning of access, insert, evict and getFreq.
Decode(a, huge) ==
    LET log_pofs == IF huge THEN LogHuge ELSE LogLine
    IN  /\ address' = a
        /\ is2M' = huge
        /\ \E b \in Shift(log_pofs) : offset' = Extract(b, 0, a)
        /\ \E b \in Shift(log_set_count + log_pofs) : setid' = Extract(b, log_pofs, a)
        /\ \E b \in Shift(Width) : tag' = Extract(b, log_set_count + log_pofs, a)
        /\ evictedAddr' = Recompose(tag', setid')
        /\ UNCHANGED set_count

Next == \E a \in Word, huge \in BOOLEAN : Decode(a, huge)

Spec == Init /\ [][Next]_vars
-----------------------------------------------------------------------------
\* The number of the page (or of the 2MB region) that an address lies in.
PageNumber(a, huge) == a \div 2^(IF huge THEN LogHuge ELSE LogLine)

\* The masks lose nothing and mix nothing: tag and set index are the page
\* number split at a power of two, whatever the undefined shift yields.  So
\* within one cache a (tag, setid) pair determines the page number and is
\* determined by it, which is why Pcc tags lines with page numbers.
\* The set exists (sets.at(setid) does not throw).
PageNumberSplit ==
    /\ tag * 2^log_set_count + setid = PageNumber(address, is2M)
    /\ setid < 2^log_set_count /\ setid < set_count
    /\ offset = address % 2^(IF is2M THEN LogHuge ELSE LogLine)

\* The evicted "address" handed back by insert is the evicted page number
\* when the set count is a power of two (L1 TLBs and PCC; not the L2 TLB
\* with its 170 sets, whose evicted address nobody reads).
EvictedIsPageNumber ==
    set_count = 2^log_set_count => evictedAddr = PageNumber(address, is2M)
=============================================================================
