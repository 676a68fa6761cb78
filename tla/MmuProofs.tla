-------------------------------- MODULE MmuProofs --------------------------------
(***************************************************************************)
(* The coherence of the TLB, for page tables, workloads and TLBs of every  *)
(* size.  The inductive invariant adds to TlbCoherent that the address     *)
(* space SATP names is the one it was last used with, since that is the    *)
(* space a fill is made from.                                              *)
(***************************************************************************)
EXTENDS Mmu, WellFoundedInduction, TLAPS

\* The current address space is the one software last gave that identifier.
SpaceFollows ==
    /\ space[satp.asid] = IF satp.set THEN satp.root ELSE Bare
    /\ ~satp.set => satp.asid = 0

Inv == TypeOK /\ SpaceFollows /\ TlbCoherent

--------------------------------------------------------------------------------
\* The index of a page number at a level is one of a table.
LEMMA IndexType ==
    ASSUME NEW vpn \in Vpn, NEW level \in {0, 1, 2}
    PROVE  Index(vpn, level) \in 0 .. Fan - 1
<1>1. Fan \in Nat \ {0} /\ vpn \in Nat
  BY MmuAssumption DEF Vpn
<1>2. Span(level) \in Nat \ {0}
  <2>1. Fan * Fan \in Nat \ {0}
    BY <1>1
  <2> QED
    BY <1>1, <2>1 DEF Span
<1>3. vpn \div Span(level) \in Int
  BY <1>1, <1>2
<1> QED
  BY <1>1, <1>3 DEF Index

\* One visit of a walk yields a well-formed entry.
LEMMA VisitType ==
    ASSUME NEW tables \in Tables, NEW p \in Ppn, NEW vpn \in Vpn, NEW level \in {0, 1, 2}
    PROVE  Visit(tables, p, vpn, level).pte \in Pte
<1>1. NoPte \in Pte
  BY MmuAssumption DEF NoPte, Pte, Ppn
<1>2. p \in RamPage => tables[p][Index(vpn, level)] \in Pte
  BY IndexType DEF Tables
<1> QED
  BY <1>1, <1>2 DEF Visit

\* So does a whole walk.
LEMMA LeafType ==
    ASSUME NEW tables \in Tables, NEW root \in Ppn, NEW vpn \in Vpn
    PROVE  Leaf(tables, root, vpn).pte \in Pte
<1> DEFINE v2 == Visit(tables, root, vpn, 2)
           v1 == Visit(tables, v2.pte.ppn, vpn, 1)
           v0 == Visit(tables, v1.pte.ppn, vpn, 0)
<1>1. v2.pte \in Pte
  BY VisitType
<1>2. v1.pte \in Pte
  <2>1. v2.pte.ppn \in Ppn
    BY <1>1 DEF Pte
  <2> HIDE DEF v2
  <2> QED
    BY <2>1, VisitType
<1>3. v0.pte \in Pte
  <2>1. v1.pte.ppn \in Ppn
    BY <1>2 DEF Pte
  <2> HIDE DEF v1
  <2> QED
    BY <2>1, VisitType
<1> HIDE DEF v2, v1, v0
<1> QED
  BY <1>1, <1>2, <1>3 DEF Leaf, v2, v1, v0

--------------------------------------------------------------------------------
\* A nonempty set of numbers has a least one, so the first match of a search is
\* well defined.
LEMMA LeastExists ==
    ASSUME NEW S \in SUBSET Nat, S # {}
    PROVE  \E i \in S : \A j \in S : i <= j
<1> DEFINE R == OpToRel(<, Nat)
<1>1. IsWellFoundedOn(R, Nat)
  BY NatLessThanWellFounded
<1>2. PICK i \in S : \A j \in S : ~(<<j, i>> \in R)
  <2> HIDE DEF R
  <2> QED
    BY <1>1, WFMin
<1>3. \A j \in S : i <= j
  <2> SUFFICES ASSUME NEW j \in S PROVE i <= j
    OBVIOUS
  <2>1. ~(j < i)
    BY <1>2 DEF OpToRel
  <2> QED
    BY <2>1
<1> QED
  BY <1>3

\* The simple map's search returns an entry for the page it looks for.
LEMMA SimpleEntryType ==
    ASSUME NEW map \in Seq(MapEntry), NEW vpn \in Vpn, Mapped(map, vpn)
    PROVE  SimpleEntry(map, vpn) \in MapEntry /\ SimpleEntry(map, vpn).vpn = vpn
<1> DEFINE S == {k \in 1 .. Len(map) : map[k].vpn = vpn}
           First(k) == map[k].vpn = vpn /\ \A j \in 1 .. k - 1 : map[j].vpn # vpn
<1>1. Len(map) \in Nat
  OBVIOUS
<1>2. S # {} /\ S \in SUBSET Nat
  BY <1>1 DEF Mapped
<1>3. PICK i \in S : \A j \in S : i <= j
  <2> HIDE DEF S
  <2> QED
    BY <1>2, LeastExists
<1>4. i \in 1 .. Len(map) /\ First(i)
  <2>1. \A j \in 1 .. i - 1 : map[j].vpn # vpn
    <3> SUFFICES ASSUME NEW j \in 1 .. i - 1, map[j].vpn = vpn PROVE FALSE
      OBVIOUS
    <3>1. j \in S
      BY <1>1
    <3>2. i <= j
      BY <3>1, <1>3
    <3> QED
      BY <3>2, <1>1
  <2> QED
    BY <2>1
<1> DEFINE k == CHOOSE x \in 1 .. Len(map) : First(x)
<1>5. k \in 1 .. Len(map) /\ First(k)
  <2> HIDE DEF First
  <2> QED
    BY <1>4
<1>6. map[k] \in MapEntry
  <2> HIDE DEF k
  <2> QED
    BY <1>5
<1>7. SimpleEntry(map, vpn) = map[k]
  BY DEF SimpleEntry
<1> QED
  BY <1>5, <1>6, <1>7

\* The first matching TLB entry is a match.
LEMMA FirstMatchIs ==
    ASSUME NEW t, NEW vpn, NEW asid, Matches(t, vpn, asid) # {}
    PROVE  FirstMatch(t, vpn, asid) \in Matches(t, vpn, asid)
<1> DEFINE S == Matches(t, vpn, asid)
<1>1. S \in SUBSET Nat
  BY MmuAssumption DEF Matches, Slot
<1>2. \E i \in S : \A j \in S : i <= j
  <2> HIDE DEF S
  <2> QED
    BY <1>1, LeastExists DEF S
<1> QED
  BY <1>2 DEF FirstMatch
--------------------------------------------------------------------------------
\* What a walk answers: a cause that exists, and an entry that holds what the
\* tables say of the page, in the address space of SATP.
LEMMA WalkAnswer ==
    ASSUME NEW tables \in Tables, NEW map, NEW s \in Satp, NEW pr,
           NEW vpn \in Vpn, NEW access
    PROVE  LET r == walk(tables, s, pr, vpn, access)
           IN  /\ r.noted \in BOOLEAN /\ (r.noted => r.cause \in Fault)
               /\ r.fill \in TlbEntry
               /\ r.fill.valid =>
                     /\ r.fill.vpn = vpn /\ r.fill.asid = s.asid
                     /\ Meaning(tables, map, s.root, vpn) = <<r.fill.ppn, r.fill.perms>>
<1> DEFINE r == walk(tables, s, pr, vpn, access)
           e == Leaf(tables, s.root, vpn).pte
           R(c, n) == Refused(c, n)
<1>1. s.root \in Ppn /\ s.asid \in Asid /\ s.root # Bare
  BY MmuAssumption DEF Satp, Ppn, Bare
<1>2. e \in Pte
  BY <1>1, LeafType
<1>3. \A c \in Fault, n \in BOOLEAN :
        /\ R(c, n).noted \in BOOLEAN /\ R(c, n).cause \in Fault
        /\ R(c, n).fill \in TlbEntry /\ ~R(c, n).fill.valid
  BY MmuAssumption DEF Refused, NoEntry, TlbEntry, Vpn, Ppn, Asid
<1>4. PageFaultOf(access) \in Fault /\ {"LoadAccessFault", "LoadPageFault"} \subseteq Fault
  BY DEF PageFaultOf, Fault
<1>5. \/ \E c \in Fault, n \in BOOLEAN : r = R(c, n)
      \/ /\ r = Found(e.ppn, Entry(vpn, e.ppn, e.perms, s.asid))
         /\ Leaf(tables, s.root, vpn).found \notin {"outside", "invalid", "inner"}
  <2> HIDE DEF R
  <2> QED
    BY <1>4 DEF walk, R
<1>6. CASE \E c \in Fault, n \in BOOLEAN : r = R(c, n)
  <2> HIDE DEF R, r
  <2> QED
    BY <1>3, <1>6 DEF r
<1>7. CASE /\ r = Found(e.ppn, Entry(vpn, e.ppn, e.perms, s.asid))
           /\ Leaf(tables, s.root, vpn).found \notin {"outside", "invalid", "inner"}
  <2>1. Leaf(tables, s.root, vpn).found = "leaf"
    BY <1>7, Zenon DEF Leaf, Visit
  <2>2. Meaning(tables, map, s.root, vpn) = <<e.ppn, e.perms>>
    BY <2>1, <1>1 DEF Meaning
  <2>3. r.noted = FALSE /\ r.fill = Entry(vpn, e.ppn, e.perms, s.asid)
    BY <1>7 DEF Found
  <2>4. /\ r.fill \in TlbEntry /\ r.fill.vpn = vpn /\ r.fill.asid = s.asid
        /\ r.fill.ppn = e.ppn /\ r.fill.perms = e.perms
    <3> HIDE DEF r, e
    <3> QED
      BY <2>3, <1>1, <1>2 DEF Entry, TlbEntry, Pte
  <2> HIDE DEF r, e
  <2> QED
    BY <2>2, <2>3, <2>4 DEF r
<1> QED
  BY <1>5, <1>6, <1>7

\* The same of the simple map, in address space 0.
LEMMA BareAnswer ==
    ASSUME NEW tables, NEW map \in Seq(MapEntry), NEW vpn \in Vpn, NEW access
    PROVE  LET r == bare(map, vpn, access)
           IN  /\ r.noted \in BOOLEAN /\ (r.noted => r.cause \in Fault)
               /\ r.fill \in TlbEntry
               /\ r.fill.valid =>
                     /\ r.fill.vpn = vpn /\ r.fill.asid = 0
                     /\ Meaning(tables, map, Bare, vpn) = <<r.fill.ppn, r.fill.perms>>
<1> DEFINE r == bare(map, vpn, access)
           e == SimpleEntry(map, vpn)
<1>1. NoEntry \in TlbEntry /\ NoEntry.valid = FALSE /\ 0 \in Asid
  BY MmuAssumption DEF NoEntry, TlbEntry, Vpn, Ppn, Asid
<1>2. PageFaultOf(access) \in Fault
  BY DEF PageFaultOf, Fault
<1>3. CASE ~Mapped(map, vpn)
  BY <1>1, <1>3 DEF bare, Found
<1>4. CASE Mapped(map, vpn)
  <2>1. e \in MapEntry /\ e.vpn = vpn
    BY <1>4, SimpleEntryType
  <2>2. Meaning(tables, map, Bare, vpn) = <<e.ppn, e.perms>>
    BY <1>4 DEF Meaning
  <2>3. \/ r = Refused(PageFaultOf(access), TRUE)
        \/ r = Found(e.ppn, Entry(vpn, e.ppn, e.perms, 0))
    BY <1>4 DEF bare
  <2> HIDE DEF r, e
  <2>4. CASE r = Refused(PageFaultOf(access), TRUE)
    BY <2>4, <1>1, <1>2 DEF Refused, r
  <2>5. CASE r = Found(e.ppn, Entry(vpn, e.ppn, e.perms, 0))
    <3>1. r.noted = FALSE /\ r.fill = Entry(vpn, e.ppn, e.perms, 0)
      BY <2>5 DEF Found
    <3>2. /\ r.fill \in TlbEntry /\ r.fill.vpn = vpn /\ r.fill.asid = 0
          /\ r.fill.ppn = e.ppn /\ r.fill.perms = e.perms
      BY <3>1, <2>1, <1>1 DEF Entry, TlbEntry, MapEntry
    <3> QED
      BY <2>2, <3>1, <3>2 DEF r
  <2> QED
    BY <2>3, <2>4, <2>5
<1> QED
  BY <1>3, <1>4

\* What translate() may put in the TLB, hit or miss.
LEMMA TranslateAnswer ==
    ASSUME TypeOK, SpaceFollows, NEW vpn \in Vpn, NEW access
    PROVE  LET r == translate(vpn, access)
           IN  /\ r.noted \in BOOLEAN /\ (r.noted => r.cause \in Fault)
               /\ r.fill \in TlbEntry
               /\ r.fill.valid =>
                     /\ r.fill.vpn = vpn
                     /\ Meaning(pt, smap, space[r.fill.asid], vpn) = <<r.fill.ppn, r.fill.perms>>
<1>1. CASE tlb_lookup(tlb, vpn, satp.asid, access)
  <2>1. NoEntry \in TlbEntry /\ NoEntry.valid = FALSE
    BY MmuAssumption DEF NoEntry, TlbEntry, Vpn, Ppn, Asid
  <2> QED
    BY <1>1, <2>1 DEF translate, Found
<1>2. CASE ~tlb_lookup(tlb, vpn, satp.asid, access)
  <2>1. CASE satp.set
    <3>1. translate(vpn, access) = walk(pt, satp, priv, vpn, access)
      BY <1>2, <2>1 DEF translate, Miss
    <3>2. space[satp.asid] = satp.root
      BY <2>1 DEF SpaceFollows
    <3> DEFINE w == walk(pt, satp, priv, vpn, access)
    <3>3. pt \in Tables /\ satp \in Satp
      BY DEF TypeOK
    <3>4. /\ w.noted \in BOOLEAN /\ (w.noted => w.cause \in Fault)
          /\ w.fill \in TlbEntry
          /\ w.fill.valid =>
                /\ w.fill.vpn = vpn /\ w.fill.asid = satp.asid
                /\ Meaning(pt, smap, satp.root, vpn) = <<w.fill.ppn, w.fill.perms>>
      BY <3>3, WalkAnswer
    <3> HIDE DEF w
    <3> QED
      BY <3>1, <3>2, <3>4 DEF w
  <2>2. CASE ~satp.set
    <3>1. translate(vpn, access) = bare(smap, vpn, access)
      BY <1>2, <2>2 DEF translate, Miss
    <3>2. space[0] = Bare
      BY <2>2 DEF SpaceFollows
    <3> DEFINE w == bare(smap, vpn, access)
    <3>3. smap \in Seq(MapEntry)
      BY DEF TypeOK
    <3>4. /\ w.noted \in BOOLEAN /\ (w.noted => w.cause \in Fault)
          /\ w.fill \in TlbEntry
          /\ w.fill.valid =>
                /\ w.fill.vpn = vpn /\ w.fill.asid = 0
                /\ Meaning(pt, smap, Bare, vpn) = <<w.fill.ppn, w.fill.perms>>
      BY <3>3, BareAnswer
    <3> HIDE DEF w
    <3> QED
      BY <3>1, <3>2, <3>4 DEF w
  <2> QED
    BY <2>1, <2>2
<1> QED
  BY <1>1, <1>2
--------------------------------------------------------------------------------
\* A fill replaces one entry by one that holds the page's present meaning.
LEMMA TranslateStep ==
    ASSUME Inv, NEW vpn \in Vpn, NEW access \in Access, Translate(vpn, access)
    PROVE  Inv'
<1> DEFINE r == translate(vpn, access)
<1>1. /\ r.noted \in BOOLEAN /\ (r.noted => r.cause \in Fault)
      /\ r.fill \in TlbEntry
      /\ r.fill.valid =>
            /\ r.fill.vpn = vpn
            /\ Meaning(pt, smap, space[r.fill.asid], vpn) = <<r.fill.ppn, r.fill.perms>>
  BY TranslateAnswer DEF Inv
<1>2. /\ tlb' = IF r.fill.valid THEN [tlb EXCEPT ![next] = r.fill] ELSE tlb
      /\ next' = IF r.fill.valid THEN Advanced(next) ELSE next
      /\ last_fault' = IF r.noted THEN [cause |-> r.cause, vpn |-> vpn] ELSE last_fault
      /\ UNCHANGED <<pt, satp, priv, enabled, smap, space, dirty>>
  BY DEF Translate
<1> HIDE DEF r
<1>3. Advanced(next) \in Slot
  BY MmuAssumption DEF Inv, TypeOK, Slot, Advanced
<1>4. TypeOK'
  BY <1>1, <1>2, <1>3 DEF Inv, TypeOK
<1>5. SpaceFollows'
  BY <1>2 DEF Inv, SpaceFollows
<1>6. TlbCoherent'
  <2> SUFFICES ASSUME NEW i \in Slot, tlb'[i].valid,
                      <<tlb'[i].vpn, tlb'[i].asid>> \notin dirty
               PROVE  Meaning(pt, smap, space[tlb'[i].asid], tlb'[i].vpn)
                        = <<tlb'[i].ppn, tlb'[i].perms>>
    BY <1>2 DEF TlbCoherent
  <2>1. (tlb'[i] = r.fill /\ r.fill.valid) \/ tlb'[i] = tlb[i]
    BY <1>2 DEF Inv, TypeOK
  <2>2. CASE tlb'[i] = r.fill /\ r.fill.valid
    BY <1>1, <2>2
  <2>3. CASE tlb'[i] = tlb[i]
    BY <2>3 DEF Inv, TlbCoherent
  <2> QED
    BY <2>1, <2>2, <2>3
<1> QED
  BY <1>4, <1>5, <1>6 DEF Inv

\* A step that keeps the TLB and marks what it changes keeps coherence.
LEMMA ChangesStep ==
    ASSUME Inv, Changes, UNCHANGED tlb
    PROVE  TlbCoherent' /\ (dirty' \subseteq Vpn \X Asid)
<1>1. dirty' \subseteq Vpn \X Asid /\ dirty \subseteq dirty'
  BY DEF Inv, TypeOK, Changes
<1>2. SUFFICES ASSUME NEW i \in Slot, tlb[i].valid,
                      <<tlb[i].vpn, tlb[i].asid>> \notin dirty'
               PROVE  Meaning(pt', smap', space'[tlb[i].asid], tlb[i].vpn)
                        = <<tlb[i].ppn, tlb[i].perms>>
  BY <1>1, Zenon DEF TlbCoherent
<1> DEFINE x == <<tlb[i].vpn, tlb[i].asid>>
<1>3. tlb[i] \in TlbEntry
  BY DEF Inv, TypeOK
<1>4. x \in Vpn \X Asid /\ x[1] = tlb[i].vpn /\ x[2] = tlb[i].asid
  BY <1>3 DEF TlbEntry
<1>5. Meaning(pt', smap', space'[x[2]], x[1]) = Meaning(pt, smap, space[x[2]], x[1])
  <2> HIDE DEF x
  <2> QED
    BY <1>2, <1>4, Zenon DEF Changes, x
<1>6. Meaning(pt, smap, space[tlb[i].asid], tlb[i].vpn) = <<tlb[i].ppn, tlb[i].perms>>
  BY <1>1, <1>2 DEF Inv, TlbCoherent
<1> QED
  BY <1>4, <1>5, <1>6

\* A store to a page table.
LEMMA WritePteStep ==
    ASSUME Inv, NEW w \in PteWrites, WritePte(w[1], w[2], w[3])
    PROVE  Inv'
<1>1. w[1] \in RamPage /\ w[2] \in 0 .. Fan - 1 /\ w[3] \in Pte
  BY MmuAssumption
<1>2. pt' \in Tables
  BY <1>1 DEF Inv, TypeOK, WritePte, Tables
<1>3. TlbCoherent' /\ (dirty' \subseteq Vpn \X Asid)
  BY ChangesStep DEF WritePte
<1> QED
  BY <1>2, <1>3 DEF Inv, TypeOK, SpaceFollows, WritePte

\* A write of SATP redefines the address space it names.
LEMMA WriteSatpStep ==
    ASSUME Inv, NEW s \in Satps, WriteSatp(s)
    PROVE  Inv'
<1>1. s \in Satp /\ (~s.set => s.asid = 0)
  BY MmuAssumption
<1>2. s.asid \in Asid /\ s.root \in Ppn
  BY <1>1 DEF Satp
<1>3. TlbCoherent' /\ (dirty' \subseteq Vpn \X Asid)
  BY ChangesStep DEF WriteSatp
<1>4. space' \in [Asid -> Ppn \cup {Bare}] /\ SpaceFollows'
  BY <1>1, <1>2 DEF Inv, TypeOK, WriteSatp, SpaceFollows
<1> QED
  BY <1>1, <1>3, <1>4 DEF Inv, TypeOK, WriteSatp

\* An entry added to the simple map.
LEMMA IdentityMapStep ==
    ASSUME Inv, NEW e \in Maps, IdentityMap(e)
    PROVE  Inv'
<1>1. e \in MapEntry
  BY MmuAssumption
<1>2. smap' \in Seq(MapEntry)
  BY <1>1 DEF Inv, TypeOK, IdentityMap
<1>3. TlbCoherent' /\ (dirty' \subseteq Vpn \X Asid)
  BY ChangesStep DEF IdentityMap
<1> QED
  BY <1>2, <1>3 DEF Inv, TypeOK, SpaceFollows, IdentityMap

\* A TLB with no valid entry is coherent.
LEMMA FlushedTlb ==
    ASSUME tlb' = [i \in Slot |-> NoEntry], next' = 0, dirty' = {}
    PROVE  /\ tlb' \in [Slot -> TlbEntry] /\ next' \in Slot
           /\ dirty' \subseteq Vpn \X Asid /\ TlbCoherent'
<1>1. NoEntry \in TlbEntry /\ NoEntry.valid = FALSE /\ 0 \in Slot
  BY MmuAssumption DEF NoEntry, TlbEntry, Vpn, Ppn, Asid, Slot
<1> QED
  BY <1>1 DEF TlbCoherent

\* A flush of one page drops every entry of it, so the page owes nothing more.
LEMMA FlushVaStep ==
    ASSUME Inv, NEW vpn \in Vpn, FlushVa(vpn)
    PROVE  Inv'
<1>1. NoEntry \in TlbEntry /\ NoEntry.valid = FALSE
  BY MmuAssumption DEF NoEntry, TlbEntry, Vpn, Ppn, Asid
<1>2. TypeOK'
  BY <1>1 DEF Inv, TypeOK, FlushVa, flush_va
<1>3. SpaceFollows'
  BY DEF Inv, SpaceFollows, FlushVa
<1>4. TlbCoherent'
  <2> SUFFICES ASSUME NEW i \in Slot, tlb'[i].valid,
                      <<tlb'[i].vpn, tlb'[i].asid>> \notin dirty'
               PROVE  Meaning(pt, smap, space[tlb'[i].asid], tlb'[i].vpn)
                        = <<tlb'[i].ppn, tlb'[i].perms>>
    BY DEF TlbCoherent, FlushVa
  <2>1. tlb'[i] = tlb[i] /\ tlb[i].vpn # vpn /\ tlb[i].valid
    BY <1>1 DEF FlushVa, flush_va
  <2>2. <<tlb[i].vpn, tlb[i].asid>> \notin dirty
    <3> DEFINE x == <<tlb[i].vpn, tlb[i].asid>>
    <3>1. x[1] # vpn /\ x \notin dirty'
      BY <2>1
    <3> HIDE DEF x
    <3>2. x \notin dirty
      BY <3>1 DEF FlushVa
    <3> QED
      BY <3>2 DEF x
  <2> QED
    BY <2>1, <2>2 DEF Inv, TlbCoherent
<1> QED
  BY <1>2, <1>3, <1>4 DEF Inv

\* The reset values.
LEMMA ResetValues ==
    /\ [p \in RamPage |-> [k \in 0 .. Fan - 1 |-> NoPte]] \in Tables
    /\ [set |-> FALSE, asid |-> 0, root |-> 0] \in Satp
    /\ [a \in Asid |-> Bare] \in [Asid -> Ppn \cup {Bare}]
    /\ 0 \in Asid /\ 0 \in Vpn
  BY MmuAssumption DEF Tables, NoPte, Pte, Satp, Asid, Ppn, Vpn

--------------------------------------------------------------------------------
\* The invariant is inductive.
THEOREM Invariance == Spec => []Inv
<1>1. Init => Inv
  <2> SUFFICES ASSUME Init PROVE Inv
    OBVIOUS
  <2>1. NoEntry \in TlbEntry /\ NoEntry.valid = FALSE /\ 0 \in Slot
    BY MmuAssumption DEF NoEntry, TlbEntry, Vpn, Ppn, Asid, Slot
  <2>2. TypeOK
    <3>1. smap \in Seq(MapEntry) /\ priv \in PrivLevel /\ dirty \subseteq Vpn \X Asid
      BY DEF Init, PrivLevel
    <3>2. tlb \in [Slot -> TlbEntry]
      BY <2>1 DEF Init
    <3>3. last_fault \in [cause : Fault \cup {"None"}, vpn : Vpn]
      BY ResetValues DEF Init
    <3>4. pt \in Tables /\ satp \in Satp /\ space \in [Asid -> Ppn \cup {Bare}]
      BY ResetValues, Zenon DEF Init
    <3>5. enabled \in BOOLEAN /\ next \in Slot
      BY <2>1, Zenon DEF Init
    <3> QED
      BY <3>1, <3>2, <3>3, <3>4, <3>5, Zenon DEF TypeOK
  <2>3. SpaceFollows
    BY ResetValues DEF Init, SpaceFollows
  <2>4. TlbCoherent
    BY <2>1 DEF Init, TlbCoherent
  <2> QED
    BY <2>2, <2>3, <2>4 DEF Inv
<1>2. Inv /\ [Next]_vars => Inv'
  <2> SUFFICES ASSUME Inv, [Next]_vars PROVE Inv'
    OBVIOUS
  <2>1. CASE \E vpn \in Vpn, access \in Access : Translate(vpn, access)
    BY <2>1, TranslateStep
  <2>2. CASE \E w \in PteWrites : WritePte(w[1], w[2], w[3])
    BY <2>2, WritePteStep
  <2>3. CASE \E s \in Satps : WriteSatp(s)
    BY <2>3, WriteSatpStep
  <2>4. CASE \E p \in Privs : SetPriv(p)
    BY <2>4, MmuAssumption DEF SetPriv, Inv, TypeOK, SpaceFollows, TlbCoherent
  <2>5. CASE \E b \in BOOLEAN : SetEnabled(b)
    BY <2>5 DEF SetEnabled, Inv, TypeOK, SpaceFollows, TlbCoherent
  <2>6. CASE \E e \in Maps : IdentityMap(e)
    BY <2>6, IdentityMapStep
  <2>7. CASE Flush
    BY <2>7, FlushedTlb DEF Flush, tlb_flush, Inv, TypeOK, SpaceFollows
  <2>8. CASE \E vpn \in Vpn : FlushVa(vpn)
    BY <2>8, FlushVaStep
  <2>9. CASE EmulatorReset
    <3>1. /\ tlb' \in [Slot -> TlbEntry] /\ next' \in Slot
          /\ dirty' \subseteq Vpn \X Asid /\ TlbCoherent'
      BY <2>9, FlushedTlb DEF EmulatorReset, tlb_flush
    <3>2. SpaceFollows'
      BY <2>9, ResetValues DEF EmulatorReset, SpaceFollows
    <3>3. TypeOK'
      BY <2>9, <3>1, ResetValues DEF EmulatorReset, Inv, TypeOK, PrivLevel
    <3> QED
      BY <3>1, <3>2, <3>3 DEF Inv
  <2>10. CASE UNCHANGED vars
    BY <2>10 DEF vars, Inv, TypeOK, SpaceFollows, TlbCoherent
  <2> QED
    BY <2>1, <2>2, <2>3, <2>4, <2>5, <2>6, <2>7, <2>8, <2>9, <2>10 DEF Next
<1> QED
  BY <1>1, <1>2, PTL DEF Spec

\* Page tables, TLB and address spaces stay in their ranges, and the replacement
\* pointer inside the TLB (tlb_insert), for every size of them.
THEOREM TypeCorrect == Spec => []TypeOK
<1>1. Inv => TypeOK
  BY DEF Inv
<1> QED
  BY <1>1, Invariance, PTL

\* No valid TLB entry outlives the mapping it came from unless software skipped a
\* flush it owes, for every size of TLB, page table and workload (src/mmu.cpp).
THEOREM TlbCoherence == Spec => []TlbCoherent
<1>1. Inv => TlbCoherent
  BY DEF Inv
<1> QED
  BY <1>1, Invariance, PTL

\* Above user mode translate() answers as if there were no TLB, for every size
\* (MMU::translate, tlb_lookup and walk).
THEOREM TlbTransparency == Spec => []TlbTransparent
<1>1. Inv => TlbTransparent
  <2> SUFFICES ASSUME Inv, priv # "U", NEW vpn \in Vpn, NEW access \in Access,
                      <<vpn, satp.asid>> \notin dirty
               PROVE  /\ translate(vpn, access).ok = Miss(vpn, access).ok
                      /\ translate(vpn, access).ppn = Miss(vpn, access).ppn
    BY DEF TlbTransparent
  <2>1. CASE ~tlb_lookup(tlb, vpn, satp.asid, access)
    BY <2>1 DEF translate
  <2>2. CASE tlb_lookup(tlb, vpn, satp.asid, access)
    <3> DEFINE i == FirstMatch(tlb, vpn, satp.asid)
               e == tlb[i]
    <3>1. i \in Matches(tlb, vpn, satp.asid) /\ access \in e.perms
      BY <2>2, FirstMatchIs DEF tlb_lookup
    <3> HIDE DEF i
    <3>2. i \in Slot /\ e.valid /\ e.vpn = vpn /\ e.asid = satp.asid
      BY <3>1 DEF Matches
    <3>3. Meaning(pt, smap, space[satp.asid], vpn) = <<e.ppn, e.perms>>
      BY <3>2 DEF Inv, TlbCoherent
    <3>4. translate(vpn, access).ok = TRUE /\ translate(vpn, access).ppn = e.ppn
      BY <2>2 DEF translate, Found, i
    <3>5. CASE satp.set
      <4> DEFINE w == Leaf(pt, satp.root, vpn)
      <4>1. space[satp.asid] = satp.root /\ satp.root # Bare
        BY <3>5, MmuAssumption DEF Inv, SpaceFollows, TypeOK, Satp, Ppn, Bare
      <4>2. w.found = "leaf" /\ w.pte.ppn = e.ppn /\ w.pte.perms = e.perms
        <5> HIDE DEF w, e
        <5> QED
          BY <3>3, <4>1 DEF Meaning, w
      <4>3. Miss(vpn, access) = Found(w.pte.ppn, Entry(vpn, w.pte.ppn, w.pte.perms, satp.asid))
        <5> HIDE DEF w, e
        <5> QED
          BY <3>1, <3>5, <4>2 DEF Miss, walk, w
      <4> HIDE DEF w, e
      <4>4. Miss(vpn, access).ok = TRUE /\ Miss(vpn, access).ppn = w.pte.ppn
        BY <4>3 DEF Found
      <4> QED
        BY <3>4, <4>2, <4>4, Zenon
    <3>6. CASE ~satp.set
      <4> DEFINE m == SimpleEntry(smap, vpn)
      <4>1. space[satp.asid] = Bare
        BY <3>6 DEF Inv, SpaceFollows
      <4>2. Mapped(smap, vpn) /\ m.ppn = e.ppn /\ m.perms = e.perms
        <5> HIDE DEF m, e
        <5> QED
          BY <3>3, <4>1 DEF Meaning, m
      <4>3. Miss(vpn, access) = Found(m.ppn, Entry(vpn, m.ppn, m.perms, 0))
        <5> HIDE DEF m, e
        <5> QED
          BY <3>1, <3>6, <4>2 DEF Miss, bare, m
      <4> HIDE DEF m, e
      <4>4. Miss(vpn, access).ok = TRUE /\ Miss(vpn, access).ppn = m.ppn
        BY <4>3 DEF Found
      <4> QED
        BY <3>4, <4>2, <4>4, Zenon
    <3> QED
      BY <3>5, <3>6
  <2> QED
    BY <2>1, <2>2
<1> QED
  BY <1>1, Invariance, PTL
================================================================================
