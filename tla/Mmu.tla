----------------------------------- MODULE Mmu -----------------------------------
(***************************************************************************)
(* The memory management unit (include/aiasm/mmu.h, src/mmu.cpp): the TLB, *)
(* the Sv39 walk over page tables kept in the scratchpad, and the simple   *)
(* map used while SATP is 0, with the writes of the guest and of the host  *)
(* that change what an address means.                                      *)
(*                                                                         *)
(* Addresses are page numbers: the page offset is copied unchanged.  The   *)
(* statistics hits_ and misses_ are left out, and so is what an invalid    *)
(* TLB entry holds.  The executor asks for a translation only while the    *)
(* MMU is enabled, and so does this module.                                *)
(***************************************************************************)
EXTENDS Integers, Sequences

CONSTANTS
    VpnCount,     \* virtual pages
    PpnCount,     \* page numbers a page-table entry can hold
    RamPages,     \* pages of the scratchpad, where page tables can be
    Fan,          \* entries of a page table (512)
    TlbSize,      \* TLB_SIZE (32)
    AsidCount,    \* address-space identifiers
    \* The workload:
    PteWrites,    \* <<page, index, entry>> the guest stores in its tables
    Satps,        \* values it writes to SATP
    Privs,        \* privilege levels it runs at
    Maps,         \* entries identity_map may add
    MaxMap        \* bound of the model: entries of simple_map_

Vpn == 0 .. VpnCount - 1
Ppn == 0 .. PpnCount - 1
RamPage == 0 .. RamPages - 1
Slot == 0 .. TlbSize - 1
Asid == 0 .. AsidCount - 1
Access == {"R", "W", "X"}
Perm == Access \cup {"U"}
PrivLevel == {"U", "S", "M"}

Fault == {"LoadAccessFault", "LoadPageFault", "StorePageFault", "FetchPageFault"}

Pte == [valid : BOOLEAN, perms : SUBSET Perm, ppn : Ppn]
Tables == [RamPage -> [0 .. Fan - 1 -> Pte]]

\* set: the register is not 0.
Satp == [set : BOOLEAN, asid : Asid, root : Ppn]
TlbEntry == [valid : BOOLEAN, vpn : Vpn, ppn : Ppn, perms : SUBSET Perm, asid : Asid]
MapEntry == [vpn : Vpn, ppn : Ppn, perms : SUBSET Perm]

ASSUME MmuAssumption ==
    /\ PpnCount \in Nat /\ VpnCount \in 1 .. PpnCount /\ RamPages \in 1 .. PpnCount
    /\ Fan \in Nat \ {0} /\ TlbSize \in Nat \ {0} /\ AsidCount \in Nat \ {0}
    /\ PteWrites \subseteq RamPage \X (0 .. Fan - 1) \X Pte
    /\ Satps \subseteq Satp
    /\ \A s \in Satps : ~s.set => s.asid = 0
    /\ Privs \subseteq PrivLevel
    /\ Maps \subseteq MapEntry
    /\ MaxMap \in Nat

VARIABLES
    pt,          \* the page tables in the scratchpad
    satp, priv,  \* of the CSR file
    enabled,     \* enabled_
    smap,        \* simple_map_
    tlb, next,   \* tlb_, and tlb_next_ modulo TLB_SIZE
    last_fault,  \* last_fault_ and last_fault_va_
    \* What software knows, for the properties:
    space,       \* root last used with each address space, or Bare
    dirty        \* <<page, asid>> whose meaning changed since its last flush

vars == <<pt, satp, priv, enabled, smap, tlb, next, last_fault, space, dirty>>

--------------------------------------------------------------------------------
\* The walk and the simple map

Bare == -1
NoPte == [valid |-> FALSE, perms |-> {}, ppn |-> 0]
NoEntry == [valid |-> FALSE, vpn |-> 0, ppn |-> 0, perms |-> {}, asid |-> 0]

IsLeaf(e) == e.perms \cap Access # {}

\* The 9-bit index of a page number at level 2, 1 or 0.
Span(level) == CASE level = 2 -> Fan * Fan [] level = 1 -> Fan [] OTHER -> 1
Index(vpn, level) == (vpn \div Span(level)) % Fan

\* One iteration of the loop of walk() at table page p.
Visit(tables, p, vpn, level) ==
    LET e == tables[p][Index(vpn, level)]
    IN  IF p \notin RamPage THEN [found |-> "outside", pte |-> NoPte]
        ELSE IF ~e.valid THEN [found |-> "invalid", pte |-> NoPte]
        ELSE [found |-> IF IsLeaf(e) THEN "leaf" ELSE "inner", pte |-> e]

\* The loop over levels 2, 1 and 0: the leaf it finds, or why it finds none
\* ("inner": the last entry is no leaf either).
Leaf(tables, root, vpn) ==
    LET v2 == Visit(tables, root, vpn, 2)
        v1 == Visit(tables, v2.pte.ppn, vpn, 1)
        v0 == Visit(tables, v1.pte.ppn, vpn, 0)
    IN  IF v2.found # "inner" THEN v2 ELSE IF v1.found # "inner" THEN v1 ELSE v0

PageFaultOf(access) ==
    CASE access = "X" -> "FetchPageFault"
      [] access = "W" -> "StorePageFault"
      [] OTHER        -> "LoadPageFault"

\* An answer of translate(): whether and where to the page is mapped, the cause
\* and whether last_fault_ is set to it, and what enters the TLB.
Found(ppn, fill) ==
    [ok |-> TRUE, ppn |-> ppn, cause |-> "None", noted |-> FALSE, fill |-> fill]
Refused(cause, noted) ==
    [ok |-> FALSE, ppn |-> 0, cause |-> cause, noted |-> noted, fill |-> NoEntry]

Entry(vpn, ppn, perms, asid) ==
    [valid |-> TRUE, vpn |-> vpn, ppn |-> ppn, perms |-> perms, asid |-> asid]

\* The U check comes last, and its fault is not noted.
walk(tables, s, pr, vpn, access) ==
    LET w == Leaf(tables, s.root, vpn)
        e == w.pte
    IN  CASE w.found = "outside" -> Refused("LoadAccessFault", TRUE)
          [] w.found = "invalid" -> Refused(PageFaultOf(access), TRUE)
          [] w.found = "inner"   -> Refused("LoadPageFault", TRUE)
          [] OTHER ->
               IF access \notin e.perms THEN Refused(PageFaultOf(access), TRUE)
               ELSE IF pr = "U" /\ "U" \notin e.perms THEN Refused("LoadPageFault", FALSE)
               ELSE Found(e.ppn, Entry(vpn, e.ppn, e.perms, s.asid))

\* The first entry of the simple map for a page.
Mapped(map, vpn) == \E k \in 1 .. Len(map) : map[k].vpn = vpn
SimpleEntry(map, vpn) ==
    map[CHOOSE k \in 1 .. Len(map) : map[k].vpn = vpn /\ \A j \in 1 .. k - 1 : map[j].vpn # vpn]

\* Bare mode: the simple map, which does not check R, or else the identity.
bare(map, vpn, access) ==
    LET e == SimpleEntry(map, vpn)
    IN  IF ~Mapped(map, vpn) THEN Found(vpn, NoEntry)
        ELSE IF access # "R" /\ access \notin e.perms THEN Refused(PageFaultOf(access), TRUE)
        ELSE Found(e.ppn, Entry(vpn, e.ppn, e.perms, 0))

--------------------------------------------------------------------------------
\* The TLB

\* Mutant of Matches: the address space is not compared.
Matches_AnyAsid(t, vpn, asid) == {i \in Slot : t[i].valid /\ t[i].vpn = vpn}

Matches(t, vpn, asid) == {i \in Slot : t[i].valid /\ t[i].vpn = vpn /\ t[i].asid = asid}

\* tlb_lookup: the first matching entry answers, if it permits the access.
FirstMatch(t, vpn, asid) ==
    CHOOSE i \in Matches(t, vpn, asid) : \A j \in Matches(t, vpn, asid) : i <= j

tlb_lookup(t, vpn, asid, access) ==
    /\ Matches(t, vpn, asid) # {}
    /\ access \in t[FirstMatch(t, vpn, asid)].perms

\* Mutant of flush_va: only the first matching entry is dropped.
flush_va_First(t, vpn) ==
    [i \in Slot |-> IF t[i].valid /\ t[i].vpn = vpn /\ \A j \in 0 .. i - 1 : ~(t[j].valid /\ t[j].vpn = vpn)
                    THEN NoEntry ELSE t[i]]

\* tlb_flush_va: the page is dropped from every address space.
flush_va(t, vpn) ==
    [i \in Slot |-> IF t[i].valid /\ t[i].vpn = vpn THEN NoEntry ELSE t[i]]

--------------------------------------------------------------------------------
\* translate()

\* The answer without the TLB.
Miss(vpn, access) ==
    IF satp.set THEN walk(pt, satp, priv, vpn, access) ELSE bare(smap, vpn, access)

translate(vpn, access) ==
    IF tlb_lookup(tlb, vpn, satp.asid, access)
    THEN Found(tlb[FirstMatch(tlb, vpn, satp.asid)].ppn, NoEntry)
    ELSE Miss(vpn, access)

\* Mutant of Advanced: the index does not wrap.
Advanced_NoWrap(n) == n + 1

\* The slot after n.
Advanced(n) == (n + 1) % TlbSize

Translate(vpn, access) ==
    LET r == translate(vpn, access)
    IN  /\ enabled
        /\ tlb' = IF r.fill.valid THEN [tlb EXCEPT ![next] = r.fill] ELSE tlb
        /\ next' = IF r.fill.valid THEN Advanced(next) ELSE next
        /\ last_fault' = IF r.noted THEN [cause |-> r.cause, vpn |-> vpn] ELSE last_fault
        /\ UNCHANGED <<pt, satp, priv, enabled, smap, space, dirty>>

--------------------------------------------------------------------------------
\* What an address means

\* The meaning of a page in an address space: <<frame, permissions>>, or << >>.
Meaning(tables, map, root, vpn) ==
    IF root = Bare
    THEN IF Mapped(map, vpn) THEN <<SimpleEntry(map, vpn).ppn, SimpleEntry(map, vpn).perms>>
         ELSE << >>
    ELSE IF Leaf(tables, root, vpn).found = "leaf"
    THEN <<Leaf(tables, root, vpn).pte.ppn, Leaf(tables, root, vpn).pte.perms>>
    ELSE << >>

\* A step that may change meanings makes the pages it changes dirty.
Changes ==
    dirty' = dirty \cup
        {x \in Vpn \X Asid : Meaning(pt', smap', space'[x[2]], x[1])
                               # Meaning(pt, smap, space[x[2]], x[1])}

--------------------------------------------------------------------------------
Init ==
    /\ pt = [p \in RamPage |-> [k \in 0 .. Fan - 1 |-> NoPte]]
    /\ satp = [set |-> FALSE, asid |-> 0, root |-> 0]
    /\ priv = "M"
    /\ enabled = FALSE
    /\ smap = << >>
    /\ tlb = [i \in Slot |-> NoEntry]
    /\ next = 0
    /\ last_fault = [cause |-> "None", vpn |-> 0]
    /\ space = [a \in Asid |-> Bare]
    /\ dirty = {}

\* The guest, or the host, stores an entry in a page table.
WritePte(p, k, e) ==
    /\ pt' = [pt EXCEPT ![p] = [@ EXCEPT ![k] = e]]
    /\ UNCHANGED <<satp, priv, enabled, smap, tlb, next, last_fault, space>>
    /\ Changes

WriteSatp(s) ==
    /\ satp' = s
    /\ space' = [space EXCEPT ![s.asid] = IF s.set THEN s.root ELSE Bare]
    /\ UNCHANGED <<pt, priv, enabled, smap, tlb, next, last_fault>>
    /\ Changes

\* A trap, mret or sret changes the privilege level.
SetPriv(p) ==
    /\ priv' = p
    /\ UNCHANGED <<pt, satp, enabled, smap, tlb, next, last_fault, space, dirty>>

SetEnabled(b) ==
    /\ enabled' = b
    /\ UNCHANGED <<pt, satp, priv, smap, tlb, next, last_fault, space, dirty>>

\* One entry of identity_map's loop.
IdentityMap(e) ==
    /\ Len(smap) < MaxMap
    /\ smap' = Append(smap, e)
    /\ UNCHANGED <<pt, satp, priv, enabled, tlb, next, last_fault, space>>
    /\ Changes

tlb_flush ==
    /\ tlb' = [i \in Slot |-> NoEntry]
    /\ next' = 0
    /\ dirty' = {}

Flush ==
    /\ tlb_flush
    /\ UNCHANGED <<pt, satp, priv, enabled, smap, last_fault, space>>

FlushVa(vpn) ==
    /\ tlb' = flush_va(tlb, vpn)
    /\ dirty' = {x \in dirty : x[1] # vpn}
    /\ UNCHANGED <<pt, satp, priv, enabled, smap, next, last_fault, space>>

\* Emulator::reset: the CSRs and the scratchpad are cleared, the TLB is flushed;
\* the simple map and the last fault stay.
EmulatorReset ==
    /\ tlb_flush
    /\ pt' = [p \in RamPage |-> [k \in 0 .. Fan - 1 |-> NoPte]]
    /\ satp' = [set |-> FALSE, asid |-> 0, root |-> 0]
    /\ priv' = "M"
    /\ enabled' = FALSE
    /\ space' = [a \in Asid |-> Bare]
    /\ UNCHANGED <<smap, last_fault>>

Next ==
    \/ \E vpn \in Vpn, access \in Access : Translate(vpn, access)
    \/ \E w \in PteWrites : WritePte(w[1], w[2], w[3])
    \/ \E s \in Satps : WriteSatp(s)
    \/ \E p \in Privs : SetPriv(p)
    \/ \E b \in BOOLEAN : SetEnabled(b)
    \/ \E e \in Maps : IdentityMap(e)
    \/ Flush
    \/ \E vpn \in Vpn : FlushVa(vpn)
    \/ EmulatorReset

Spec == Init /\ [][Next]_vars

--------------------------------------------------------------------------------
\* Properties

\* Type invariant.
TypeOK ==
    /\ pt \in Tables /\ satp \in Satp /\ priv \in PrivLevel /\ enabled \in BOOLEAN
    /\ smap \in Seq(MapEntry)
    /\ tlb \in [Slot -> TlbEntry] /\ next \in Slot
    /\ last_fault \in [cause : Fault \cup {"None"}, vpn : Vpn]
    /\ space \in [Asid -> Ppn \cup {Bare}]
    /\ dirty \subseteq Vpn \X Asid

\* No valid TLB entry outlives the mapping it was filled from unless software
\* skipped the flush it owes: an entry of a page that did not change meaning since
\* its last flush holds the frame and the permissions a walk would find now, in
\* whichever address space, after refills on permission misses, switches of SATP
\* with reused address spaces, bare mode and partial flushes (src/mmu.cpp).
TlbCoherent ==
    \A i \in Slot :
        tlb[i].valid /\ <<tlb[i].vpn, tlb[i].asid>> \notin dirty =>
            Meaning(pt, smap, space[tlb[i].asid], tlb[i].vpn) = <<tlb[i].ppn, tlb[i].perms>>

\* Above user mode the TLB is invisible: translate() answers for a page that owes
\* no flush exactly as if it walked, hit or miss (MMU::translate, tlb_lookup).
TlbTransparent ==
    priv # "U" =>
        \A vpn \in Vpn, access \in Access :
            <<vpn, satp.asid>> \notin dirty =>
                /\ translate(vpn, access).ok = Miss(vpn, access).ok
                /\ translate(vpn, access).ppn = Miss(vpn, access).ppn
================================================================================
