----------------------------- MODULE StateSpecs -----------------------------
(***************************************************************************)
(* The state specifications of six protocol families and the checks that   *)
(* are made of them at compile time and in the tests                       *)
(* (mesif_state_spec.hh, cxl_state_spec.hh, tilelink_state_spec.hh,        *)
(* ualink_inc_state_spec.hh, nvlink_sharp_state_spec.hh,                   *)
(* cxl_dcoh_state_spec.hh).  A behaviour takes one specification, as it is *)
(* declared or with one entry changed, and gives it to its checks.  What a *)
(* cell says of its evidence is kept (kind of basis, pending, whom it      *)
(* cites); the wording of references, notes and statements is left out.    *)
(***************************************************************************)
EXTENDS Integers, FiniteSets, Sequences, SequencesExt, TLC

CONSTANT EditedEvents   \* the rows of the CXL table in which a cell is replaced

VARIABLES
  family,    \* whose specification
  spec,      \* its tables
  verdict    \* of its checks

specVars == <<family, spec, verdict>>

(* A table as declared, and with one of its cells replaced.                *)
Edits(table, alternatives(_)) ==
  {table} \cup UNION {{[table EXCEPT ![c] = a] : a \in alternatives(c)} : c \in DOMAIN table}

Count(table, Test(_)) == Cardinality({c \in DOMAIN table : Test(table[c])})

(* source_registry.hh: what kind of source an identifier stands for.       *)
SourceKind ==
  [tilelink |-> "clause", cxl |-> "public", archforge |-> "repo",
   c10 |-> "repo", pending |-> "public", repo |-> "repo"]

Ranks == <<"NONE", "READ", "UNIQUE", "WRITEBACK">>
Rank(perm) == CHOOSE i \in 1 .. 4 : Ranks[i] = perm

-----------------------------------------------------------------------------
(* MESIF: kTable, a row of events for each state.                          *)
MesifStates == <<"I", "S", "E", "M", "F">>
MesifEvents == <<"Rd", "RdUnique", "Wr", "Upgrade", "SnpShared", "SnpUnique">>
MesifLocal  == {"Rd", "RdUnique", "Wr", "Upgrade"}

MesifRows ==
  [I |-> <<"S", "E", "I", "I", "I", "I">>, S |-> <<"S", "E", "S", "E", "S", "I">>,
   E |-> <<"E", "E", "M", "E", "F", "I">>, M |-> <<"M", "M", "M", "M", "F", "I">>,
   F |-> <<"F", "E", "F", "E", "F", "I">>]

(* Where the evidence of each cell came from before it was signed off:     *)
(* the numbers of Primary, Structural, Derived and Analogical origins.     *)
MesifOrigins ==
  [I |-> <<"S", "A", "D", "D", "D", "D">>, S |-> <<"S", "D", "A", "D", "D", "D">>,
   E |-> <<"S", "D", "A", "D", "P", "D">>, M |-> <<"S", "D", "S", "D", "D", "D">>,
   F |-> <<"S", "A", "A", "A", "P", "P">>]

MesifPerms == [I |-> "NONE", S |-> "READ", E |-> "UNIQUE", M |-> "WRITEBACK", F |-> "WRITEBACK"]
MesifPermOrigins == [I |-> "S", S |-> "S", E |-> "S", M |-> "S", F |-> "P"]

Signed(value, origin) ==
  [to |-> value, kind |-> "P", origin |-> origin, pending |-> FALSE, anchor |-> TRUE]

MesifCells == {<<s, e>> : s \in ToSet(MesifStates), e \in 1 .. 6} \cup
              {<<s, 0>> : s \in ToSet(MesifStates)}

(* Cell <<s, e>> is the transition of s on the e-th event, <<s, 0>> the    *)
(* permission s stands for.                                                *)
MesifDeclared ==
  [c \in MesifCells |->
     IF c[2] = 0 THEN Signed(MesifPerms[c[1]], MesifPermOrigins[c[1]])
     ELSE Signed(MesifRows[c[1]][c[2]], MesifOrigins[c[1]][c[2]])]

MesifEdits(c) ==
  LET cell == MesifDeclared[c]
  IN  {[cell EXCEPT !.to = v] : v \in IF c[2] = 0 THEN ToSet(Ranks) \cup {"beyond"}
                                      ELSE ToSet(MesifStates) \cup {"beyond"}} \cup
      {[cell EXCEPT !.kind = k, !.pending = p] : k \in {"P", "S", "D", "A"}, p \in BOOLEAN} \cup
      {[cell EXCEPT !.origin = k] : k \in {"P", "S", "D", "A"}} \cup
      {[cell EXCEPT !.anchor = FALSE]}

MesifTo(t, s, e) == t[<<s, SelectInSeq(MesifEvents, LAMBDA x : x = e)>>].to
MesifPermOf(t, s) == t[<<s, 0>>].to

(* kDeviations: state, event, and the target of the template a cell must   *)
(* differ from.                                                            *)
Deviations ==
  <<<<"I", "SnpShared", "SC">>, <<"E", "SnpShared", "SC">>, <<"S", "RdUnique", "SC">>,
    <<"F", "RdUnique", "-">>, <<"F", "Wr", "-">>, <<"F", "Upgrade", "-">>,
    <<"F", "SnpShared", "-">>, <<"F", "SnpUnique", "-">>, <<"M", "SnpShared", "SC">>>>

MesifComplete(t) ==
  \A c \in DOMAIN t : t[c].to # "beyond"

(* basis_entry_is_consistent                                               *)
MesifBasisConsistent(t) ==
  \A c \in DOMAIN t : IF t[c].kind = "P" THEN ~t[c].pending /\ t[c].anchor ELSE t[c].pending

(* write_is_legal, write_rule_holds: a write leaves a copy that may not be *)
(* written as it is, and one that may stays exclusive.                     *)
WriteIsLegal(s) == s \in {"E", "M"}

WriteRule(t) ==
  \A s \in ToSet(MesifStates) :
    IF WriteIsLegal(s) THEN MesifTo(t, s, "Wr") \in {"E", "M"}
                       ELSE MesifTo(t, s, "Wr") = s

RegressionAllowed(s, e) == s = "F" /\ e \in {"RdUnique", "Upgrade"}

(* rank_rule_holds: what a cache does itself never lowers its permission,  *)
(* F's two ways to E apart; a write of E makes it dirty.                   *)
RankRule(t) ==
  /\ \A s \in ToSet(MesifStates), e \in MesifLocal :
       \/ Rank(MesifPermOf(t, MesifTo(t, s, e))) >= Rank(MesifPermOf(t, s))
       \/ RegressionAllowed(s, e)
  /\ MesifTo(t, "E", "Wr") = "M"
  /\ Rank(MesifPermOf(t, "M")) > Rank(MesifPermOf(t, "E"))

DeviationsConsistent(t) ==
  /\ \A i \in DOMAIN Deviations : MesifTo(t, Deviations[i][1], Deviations[i][2]) # Deviations[i][3]
  /\ \A i, j \in DOMAIN Deviations :
       i # j => <<Deviations[i][1], Deviations[i][2]>> # <<Deviations[j][1], Deviations[j][2]>>
  /\ \A e \in ToSet(MesifEvents) \ {"Rd"} :
       \E i \in DOMAIN Deviations : Deviations[i][1] = "F" /\ Deviations[i][2] = e

(* The counts the assertions name: all 35 cells signed off, the origins    *)
(* 4, 10, 15 and 6.                                                        *)
MesifCounts(t) ==
  /\ Count(t, LAMBDA c : c.kind = "P") = 35
  /\ Count(t, LAMBDA c : c.pending) = 0
  /\ \A o \in {<<"P", 4>>, <<"S", 10>>, <<"D", 15>>, <<"A", 6>>} :
       Count(t, LAMBDA c : c.origin = o[1]) = o[2]

MesifAccepts(t) ==
  /\ MesifComplete(t) /\ MesifBasisConsistent(t)
  /\ WriteRule(t) /\ RankRule(t) /\ DeviationsConsistent(t) /\ MesifCounts(t)

-----------------------------------------------------------------------------
(* CXL.cache: kTransitions.  Cell <<e, s>> is what event e makes of s.     *)
CxlStates == <<"I", "S", "E", "M">>
CxlRemote == <<"SnpInv", "SnpData", "SnpCurr">>
CxlLocal  ==
  <<"RdShared", "RdCurr", "RdOwn", "RdAny", "RdOwnNoData", "CLFlush", "CacheFlushed", "ItoMWr",
    "WrCur", "WOWrInv", "WrInv", "DirtyEvict", "CleanEvict", "CleanEvictNoData">>

CxlKnown ==
  [e \in ToSet(CxlLocal \o CxlRemote) |->
     CASE e = "RdShared"                         -> [s \in {"I"} |-> "S"]
       [] e \in {"RdCurr", "SnpCurr"}            -> [s \in ToSet(CxlStates) |-> s]
       [] e \in {"RdOwn", "RdOwnNoData"}         -> [s \in {"I", "S"} |-> "M"]
       [] e = "DirtyEvict"                       -> [s \in {"M"} |-> "I"]
       [] e \in {"CleanEvict", "CleanEvictNoData"} -> [s \in {"I", "S", "E"} |-> "I"]
       [] e = "SnpInv"                           -> [s \in {"S", "E", "M"} |-> "I"]
       [] e = "SnpData"                          -> [s \in {"S", "E", "M"} |-> "S"]
       [] OTHER                                  -> << >>]

(* Inferred from the names of transient states, not stated.                *)
CxlInferred == {"RdOwn", "RdOwnNoData"} \X {"S"}
(* Stated by a source without a licence.                                   *)
CxlUnlicensed == {"CleanEvict", "CleanEvictNoData"} \X {"E"}

CxlDeclared ==
  [c \in ToSet(CxlLocal \o CxlRemote) \X ToSet(CxlStates) |->
     IF c[2] \notin DOMAIN CxlKnown[c[1]]
     THEN [kind |-> "Unknown", to |-> "I", basis |-> "Self", pending |-> TRUE,
           cites |-> "", note |-> "R"]
     ELSE [kind |-> "Known", to |-> CxlKnown[c[1]][c[2]],
           basis |-> IF c \in CxlInferred THEN "Self" ELSE "Direct",
           pending |-> c \in CxlInferred \cup CxlUnlicensed, cites |-> "D", note |-> "text"]]

CxlEdits(c) ==
  LET cell == CxlDeclared[c]
  IN  IF c[1] \notin EditedEvents THEN {} ELSE
      {[cell EXCEPT !.kind = k, !.pending = p, !.cites = r] :
         k \in {"Known", "Illegal", "Unknown", "Free"}, p \in BOOLEAN, r \in {"", "D", "other"}} \cup
      {[cell EXCEPT !.basis = b, !.note = n] :
         b \in {"Direct", "Analogical", "Anchor", "Self"}, n \in {"", "R", "text"}} \cup
      {[cell EXCEPT !.kind = "Free", !.basis = "Direct", !.cites = "D"],
       [cell EXCEPT !.kind = "Unknown", !.note = "R"],
       [cell EXCEPT !.kind = "Known", !.pending = FALSE, !.cites = "other"]}

(* transitions_are_valid_for: what is free is read no further than its     *)
(* basis, what is unknown no further than its note.                        *)
CxlCellValid(c) ==
  CASE c.kind = "Free"    -> c.cites # "" /\ c.note # "" /\ c.basis = "Direct"
    [] c.kind = "Unknown" -> c.note = "R"
    [] OTHER -> /\ c.kind = "Illegal" => c.cites = "D"
                /\ ~c.pending => c.kind = "Known" /\ c.cites = "D"
                /\ c.basis \in {"Analogical", "Self"} => c.pending

(* coverage_is_not_regressed                                               *)
CxlDecided(c) == c.kind # "Unknown"
CxlSettled(c) == c.kind = "Known" /\ ~c.pending
CxlCoverage(t) == Count(t, CxlSettled) >= 22 /\ Count(t, CxlDecided) >= 26

CxlAccepts(t) == (\A c \in DOMAIN t : CxlCellValid(t[c])) /\ CxlCoverage(t)

(* basis_ref_kind_consistent: D1 and D2 are public, anything else is the   *)
(* repository's own.                                                       *)
CxlRefKind(c) == IF c.cites = "D" THEN SourceKind.cxl ELSE SourceKind.repo

CxlRefConsistent(c) ==
  CASE c.basis = "Direct" -> CxlRefKind(c) = "public"
    [] c.basis = "Anchor" -> CxlRefKind(c) = "repo"
    [] OTHER              -> CxlRefKind(c) # "clause"

(* structure_is_valid_for: the lists of states, events and permissions.    *)
CxlStructure ==
  [states |-> CxlStates, remote |-> CxlRemote, local |-> CxlLocal,
   perms |-> <<"NONE", "READ", "UNIQUE", "WRITEBACK">>]

IsRemote(e) == e \in {"SnpInv", "SnpData", "SnpCurr"}

StructureEdits ==
  {CxlStructure} \cup
  {[CxlStructure EXCEPT !.states = s] : s \in {Append(CxlStates, "F"), SubSeq(CxlStates, 1, 3)}} \cup
  {[CxlStructure EXCEPT !.remote[i] = e] : i \in 1 .. 3, e \in ToSet(CxlRemote) \cup {"WrInv"}} \cup
  {[CxlStructure EXCEPT !.local[i] = e] : i \in 1 .. 14, e \in {"SnpInv", "RdOwn"}} \cup
  {[CxlStructure EXCEPT !.perms[i] = p] : i \in 1 .. 4, p \in ToSet(Ranks)} \cup
  {[CxlStructure EXCEPT !.remote = SubSeq(CxlRemote, 1, n)] : n \in 0 .. 2}

StructureAccepts(x) ==
  /\ Len(x.states) = 4 /\ Len(x.perms) = Len(x.states)
  /\ x.perms = <<"NONE", "READ", "UNIQUE", "WRITEBACK">>
  /\ Len(x.remote) = 3 /\ IsInjective(x.remote)
  /\ \A e \in ToSet(x.remote) : IsRemote(e)
  /\ \A e \in ToSet(x.local) : ~IsRemote(e)

-----------------------------------------------------------------------------
(* TileLink: kTransitions; a cell may name several targets, or none.       *)
TileStates == <<"Nothing", "Branch", "Tip">>
TileEvents == <<"Cap", "Grow", "Prune", "Report">>

TileTargets ==
  [Cap    |-> <<{"Nothing", "Branch", "Tip"}, {"Nothing", "Branch", "Tip"},
                {"Nothing", "Branch", "Tip"}>>,
   Grow   |-> <<{"Branch", "Tip"}, {"Tip"}, {}>>,
   Prune  |-> <<{}, {"Nothing"}, {"Nothing", "Branch"}>>,
   Report |-> <<{"Nothing"}, {"Branch"}, {"Tip"}>>]

TileDeclared ==
  [c \in ToSet(TileEvents) \X (1 .. 3) |->
     [kind |-> "Known", to |-> TileTargets[c[1]][c[2]], basis |-> "Direct", pending |-> FALSE,
      cites |-> "tilelink", note |-> TRUE]]

TileEdits(c) ==
  LET cell == TileDeclared[c]
  IN  {[cell EXCEPT !.to = to] : to \in SUBSET (ToSet(TileStates) \cup {"beyond"})} \cup
      {[cell EXCEPT !.kind = k, !.to = to, !.cites = r] :
         k \in {"Known", "Free", "Unknown"}, to \in {{}, cell.to}, r \in {"", "tilelink", "repo"}} \cup
      {[cell EXCEPT !.basis = b, !.pending = p] : b \in {"Direct", "Analogical"}, p \in BOOLEAN}

TileCellValid(c) ==
  CASE c.kind = "Free"    -> c.to = {} /\ c.cites # "" /\ c.note /\ c.basis = "Direct"
    [] c.kind = "Unknown" -> c.to = {} /\ c.cites = "" /\ c.note
    [] OTHER -> /\ c.to \subseteq ToSet(TileStates) /\ c.cites # ""
                /\ c.pending = (c.basis # "Direct")

KnownWith(t, sizes) == Count(t, LAMBDA c : c.kind = "Known" /\ Cardinality(c.to) \in sizes)

TileCounts(t) ==
  /\ Count(t, LAMBDA c : c.kind = "Known") = 12 /\ Count(t, LAMBDA c : c.kind = "Unknown") = 0
  /\ KnownWith(t, {0}) = 2 /\ KnownWith(t, {1}) = 5
  /\ KnownWith(t, {2}) = 2 /\ KnownWith(t, {3}) = 3

TileAccepts(t) == (\A c \in DOMAIN t : TileCellValid(t[c])) /\ TileCounts(t)

(* basis_ref_kind_consistent: a direct basis is a clause of the            *)
(* specification, any other is not.                                        *)
TileRefConsistent(c) ==
  (c.basis = "Direct") = (SourceKind[IF c.cites = "" THEN "repo" ELSE c.cites] = "clause")

(* The names of the states and events; Trunk is no stable state.           *)
NameEdits ==
  {[states |-> s, events |-> e] :
     s \in {TileStates, Append(TileStates, "Trunk"), <<"Nothing", "Trunk", "Tip">>, Reverse(TileStates)},
     e \in {TileEvents, Append(TileEvents, "Probe"), Reverse(TileEvents)}}

NamesAccept(x) ==
  x.states = TileStates /\ x.events = TileEvents /\ "Trunk" \notin ToSet(x.states)

(* kAsymmetryMessages: the channels a message may take.                    *)
Asymmetry ==
  [Acquire |-> {"A"}, Probe |-> {"B"}, Grant |-> {"D"}, GrantData |-> {"D"}, GrantAck |-> {"E"}]

AsymmetryEdits(m) == {Asymmetry[m]} \cup {Asymmetry[m] \cup {ch} : ch \in {"A", "B", "C", "D", "E"}} \cup
                     {{ch} : ch \in {"A", "B", "C", "D", "E"}} \cup {{}}

(* cxl_style_request_direction_would_hold_for: the requests all go one way *)
CxlStyle(t) == Cardinality((t["Acquire"] \cup t["Probe"]) \cap {"A", "B"}) = 1

AsymmetryAccepts(t) ==
  /\ t["Grant"] \cup t["GrantData"] = {"D"} /\ t["Probe"] = {"B"}
  /\ ~CxlStyle(t)

(* kT3MappingCells: row i is about intent i; the permission events it      *)
(* stands for, on what basis, and what it cites.                           *)
Intents ==
  <<"Request", "Completion", "Snoop", "SnoopResp", "Writeback", "ForwardData", "BackInvalidate",
    "AddressResolve", "Barrier", "SnoopCompletionAck", "AtomicIntent">>

T3Declared ==
  [i \in DOMAIN Intents |->
     [intent |-> Intents[i], row |-> i, basis |-> "Direct", cites |-> "clause",
      events |-> CASE Intents[i] = "Completion" -> {"Grow"}
                   [] Intents[i] \in {"Snoop", "SnoopResp", "Writeback"} -> {"Prune"}
                   [] OTHER -> {}]]

T3Edits(i) ==
  LET cell == T3Declared[i]
  IN  {[cell EXCEPT !.intent = x] : x \in ToSet(Intents)} \cup
      {[cell EXCEPT !.row = r] : r \in 0 .. 11} \cup
      {[cell EXCEPT !.basis = b, !.events = e, !.cites = r] :
         b \in {"Direct", "SelfDerived", "Pending"},
         e \in {{}, {"Grow"}, {"Prune", "Beyond"}, cell.events}, r \in {"", "clause", "repo"}}

(* t3_rows_are_valid_for and the six predicates asserted one by one; row 0 *)
(* is a row without a reference.                                           *)
T3Accepts(t) ==
  /\ \A i \in DOMAIN t : t[i].intent = Intents[i] /\ t[i].row # 0
  /\ \A i, j \in DOMAIN t : i # j => t[i].intent # t[j].intent /\ t[i].row # t[j].row
  /\ \A i \in DOMAIN t :
       IF t[i].basis = "Pending" THEN t[i].events = {} ELSE t[i].cites # ""
  /\ \A i \in DOMAIN t : t[i].events \subseteq ToSet(TileEvents)

(* t3_consumable_event_mask_for: the row is found by its position.         *)
Consumed(t, intent) ==
  LET cell == t[SelectInSeq(Intents, LAMBDA x : x = intent)]
  IN  IF cell.basis = "Pending" THEN {} ELSE cell.events

T3RefConsistent(c) == (c.basis = "Direct") = (c.cites = "clause")

-----------------------------------------------------------------------------
(* UALink INC: the basis of the eleven obligations and of the four INC     *)
(* operations.  A reference is a sequence of tokens of the classes C (a    *)
(* contract), N (pending), A (a public source); "C-" and "X" are tokens of *)
(* no class, of which the first still begins like a contract.              *)
Tokens == {"C", "N", "A", "C-", "X"}
References == {<< >>} \cup {<<a>> : a \in Tokens} \cup {<<a, b>> : a \in Tokens, b \in Tokens}

InPending == {4, 5, 6}

UalinkDeclared ==
  [i \in 1 .. 15 |->
     IF i > 11 THEN [ref |-> <<"C", "N">>, kind |-> "Pending"]
     ELSE IF i \in InPending THEN [ref |-> <<"N">>, kind |-> "Pending"]
     ELSE IF i \in {1, 2} THEN [ref |-> <<"C", "C">>, kind |-> "SelfDerived"]
     ELSE [ref |-> <<"C">>, kind |-> "SelfDerived"]]

UalinkEdits(i) == [ref : References, kind : {"SelfDerived", "Pending"}]

RefContains(ref, class) == class \in ToSet(ref)
RefOnly(ref, class) == ToSet(ref) = {class}
UnknownToken(ref) == ToSet(ref) \cap {"C-", "X"} # {}

(* basis_kind_matches_ref_class                                            *)
KindMatchesRef(c) ==
  IF c.kind = "SelfDerived" THEN RefOnly(c.ref, "C")
  ELSE RefContains(c.ref, "N") /\ ~RefContains(c.ref, "A") /\ ~UnknownToken(c.ref)

(* resolve_ref and ref_tokens_ok, the second opinion the source registry's *)
(* tests ask for: a token is told by its first two characters.             *)
Registered(ref) == ref = << >> \/ ToSet(ref) \cap {"N", "C", "C-"} # {}

TokensOk(c) ==
  /\ ToSet(c.ref) \subseteq {"C", "C-", "N"}
  /\ IF c.kind = "SelfDerived" THEN ~RefContains(c.ref, "N") ELSE RefContains(c.ref, "N")

RefKindConsistent(c) == Registered(c.ref) /\ TokensOk(c)

UalinkAccepts(t) ==
  /\ \A i \in DOMAIN t : t[i].ref # << >> /\ KindMatchesRef(t[i])
  /\ \A i \in 1 .. 11 : (t[i].kind = "Pending") = (i \in InPending)
  /\ \A i \in DOMAIN t : t[i].kind = "SelfDerived" => ~RefContains(t[i].ref, "A")

(* kPendingSemanticItems: entry i is N-i and says so.                      *)
PendingDeclared == [i \in 1 .. 7 |-> [id |-> i, ref |-> i]]
PendingEdits(i) == [id : 1 .. 8, ref : 0 .. 8]

PendingAccepts(t) ==
  /\ \A i \in DOMAIN t : t[i].id <= 7 /\ t[i].ref = t[i].id
  /\ \A i, j \in DOMAIN t : i # j => t[i].id # t[j].id

(* kIncOpPrimitives: the primitives an INC operation is made of.           *)
UsedNames == {"REDUCE", "MULTICAST", "BROADCAST"}

IncPrimitives ==
  [ReadReduce |-> <<"REDUCE">>, WriteMulticast |-> <<"MULTICAST">>, Broadcast |-> <<"BROADCAST">>,
   AllReduce |-> <<"REDUCE", "BROADCAST">>]

IncEdits(op) ==
  {IncPrimitives[op]} \cup
  {<<a>> : a \in UsedNames \cup {"GATHER"}} \cup
  {<<a, b>> : a \in UsedNames \cup {"GATHER"}, b \in UsedNames \cup {"GATHER"}}

(* inc_op_primitive_count is of the operation, whatever the table holds.   *)
PrimitiveCount(op) == IF op = "AllReduce" THEN 2 ELSE 1
PrimitiveName(t, op, i) == IF i \in DOMAIN t[op] THEN t[op][i] ELSE ""

IncAccepts(t) ==
  /\ \A op \in DOMAIN t : \A i \in 1 .. PrimitiveCount(op) : PrimitiveName(t, op, i) \in UsedNames
  /\ PrimitiveName(t, "AllReduce", 1) = "REDUCE" /\ PrimitiveName(t, "AllReduce", 2) = "BROADCAST"

(* kCertificateSpecs: what is certified, on which sources of edges.        *)
CertificateNames == <<"C1Prime", "C2", "C3", "C4">>

CertificateDeclared ==
  [i \in 1 .. 4 |-> [id |-> CertificateNames[i], whole |-> TRUE,
                     domains |-> IF i = 1 THEN {"archforge", "repo"} ELSE {"repo"}]]

CertificateEdits(i) ==
  [id : ToSet(CertificateNames), whole : BOOLEAN, domains : SUBSET {"archforge", "repo"}]

CertificatesAccept(t) ==
  /\ \A i \in DOMAIN t : t[i].id = CertificateNames[i] /\ t[i].whole /\ t[i].domains # {}
  /\ t[1].domains = {"archforge", "repo"}

-----------------------------------------------------------------------------
(* NVLink SHARP and the symmetric CXL of the DCOH: a table of bases each.  *)
(* A source whose licence is not confirmed supports only pending cells.    *)
NvlinkLicensed == {"Adr"}
DcohLicensed   == {"S5", "S7"}

Basis(kind, pending, source) ==
  [kind |-> kind, pending |-> pending, source |-> source, cited |-> TRUE]

NvlinkDeclared == [i \in 1 .. 12 |-> Basis("SelfDerived", FALSE, "Adr")]

(* Device states, view states, directory states, memory channels, cache    *)
(* channels, the projection, the five predicates.                          *)
DcohDeclared ==
  [i \in 1 .. 4 |-> Basis("PublicDirect", FALSE, "S5")] \o
  [i \in 1 .. 3 |-> Basis("PublicDirect", TRUE, "S6")] \o
  [i \in 1 .. 3 |-> Basis("PublicDirect", TRUE, "S4")] \o
  [i \in 1 .. 6 |-> Basis("PublicDirect", TRUE, IF i < 5 THEN "S4" ELSE "S6")] \o
  [i \in 1 .. 3 |-> Basis("PublicDirect", FALSE, "S5")] \o
  [i \in 1 .. 4 |-> Basis("PublicAnalogical", TRUE, "Derived")] \o
  [i \in 1 .. 5 |-> Basis("PublicDirect", TRUE, <<"S2", "S7", "S7", "S4", "S6">>[i])]

BasisEdits(sources) ==
  [kind : {"PublicDirect", "PublicAnalogical", "SelfDerived"}, pending : BOOLEAN,
   source : sources, cited : BOOLEAN]

NvlinkEdits(i) == BasisEdits({"S1", "Adr", "Derived"})
DcohEdits(i) == BasisEdits({"S4", "S5", "S7", "Derived"})

(* basis_is_valid                                                          *)
BasisValid(b, licensed) == b.cited /\ (b.pending \/ b.source \in licensed)

(* basis_ref_kind_consistent: what a public source states is not cited     *)
(* from the repository.                                                    *)
BasisKindConsistent(b, own) == b.kind = "PublicDirect" => b.source \notin own

NvlinkAccepts(t) ==
  /\ \A i \in DOMAIN t : BasisValid(t[i], NvlinkLicensed)
  /\ Count(t, LAMBDA b : ~b.pending) >= 12

DcohAccepts(t) == \A i \in DOMAIN t : BasisValid(t[i], DcohLicensed)

(* The fabric's ingress: what becomes of an access that hits a region of   *)
(* a committed epoch, of a region that was destroyed, of an atomic of the  *)
(* coherence network, and of a registration while traffic is under way.    *)
Classify(hit, committed) == IF hit /\ committed THEN "divert" ELSE "pass"
AfterDestroy(registered) == IF registered THEN "divert" ELSE "pass"
FailStop(hit, committed, atomic) == hit /\ committed /\ atomic
RegisterRegion(drained) == IF drained THEN "ok" ELSE "drain_failed"

(* fail_stop_matches_ingress_split and the assertions about each decision. *)
IngressAccepts(x) ==
  /\ FailStop(x.hit, x.committed, x.atomic) =
       (Classify(x.hit, x.committed) = "divert" /\ x.atomic)
  /\ AfterDestroy(x.hit) = "pass" <=> ~x.hit
  /\ RegisterRegion(x.atomic) = "ok" <=> x.atomic

(* Orderings A, B and D: what is requested waits for what was before it;   *)
(* ordering C: reductions go by their code.                                *)
MayFollow(done, requested) == requested => done
CodesOrdered(a, b) == a < b

(* The device cache's states and the permission each stands for, as a      *)
(* function and as a table; the other two state machines have none.        *)
DcohPermOf(s) ==
  CASE s = "M" -> "WRITEBACK" [] s = "E" -> "UNIQUE" [] s = "S" -> "READ" [] OTHER -> "NONE"
DcohStates == <<"M", "E", "S", "I">>
DcohProjection == <<"WRITEBACK", "UNIQUE", "READ", "NONE">>

(* kCxlMemChannelDirection, kDeviceInitiatedSnoopSet                       *)
MemChannels ==
  [M2S_Req |-> "remote", M2S_RwD |-> "remote", S2M_NDR |-> "local", S2M_DRS |-> "local",
   S2M_BISnp |-> "local", M2S_BIRsp |-> "remote"]
DeviceSnoops == {"S2M_BISnp"}

(* is_cxl3_symmetric: all five capabilities at once.                       *)
Capabilities == {"bi_snoop", "device_sf", "many_hosts", "p2p", "caching_host"}
IsSymmetric(have) == Capabilities \subseteq have

(* A device starts a snoop on one channel, which is local to it.           *)
SnoopsAccept(channels) ==
  /\ Cardinality(channels) = 1 /\ "S2M_BISnp" \in channels
  /\ MemChannels["S2M_BISnp"] = "local"

-----------------------------------------------------------------------------
Families ==
  {"mesif", "cxl", "structure", "tilelink", "names", "asymmetry", "t3", "ualink", "pending",
   "inc", "certificates", "nvlink", "dcoh", "ingress", "orders", "snoops", "symmetric"}

Specifications(f) ==
  CASE f = "mesif"        -> Edits(MesifDeclared, MesifEdits)
    [] f = "cxl"          -> Edits(CxlDeclared, CxlEdits)
    [] f = "structure"    -> StructureEdits
    [] f = "tilelink"     -> Edits(TileDeclared, TileEdits)
    [] f = "names"        -> NameEdits
    [] f = "asymmetry"    -> Edits(Asymmetry, AsymmetryEdits)
    [] f = "t3"           -> Edits(T3Declared, T3Edits)
    [] f = "ualink"       -> Edits(UalinkDeclared, UalinkEdits)
    [] f = "pending"      -> Edits(PendingDeclared, PendingEdits)
    [] f = "inc"          -> Edits(IncPrimitives, IncEdits)
    [] f = "certificates" -> Edits(CertificateDeclared, CertificateEdits)
    [] f = "nvlink"       -> Edits(NvlinkDeclared, NvlinkEdits)
    [] f = "dcoh"         -> Edits(DcohDeclared, DcohEdits)
    [] f = "ingress"      -> [hit : BOOLEAN, committed : BOOLEAN, atomic : BOOLEAN]
    [] f = "orders"       -> [done : BOOLEAN, requested : BOOLEAN, a : 1 .. 3, b : 1 .. 3]
    [] f = "snoops"       -> SUBSET DOMAIN MemChannels
    [] f = "symmetric"    -> SUBSET Capabilities

SpecInit == verdict = "unread" /\ \E f \in Families : family = f /\ spec \in Specifications(f)

Accepts ==
  CASE family = "mesif"        -> MesifAccepts(spec)
    [] family = "cxl"          -> CxlAccepts(spec)
    [] family = "structure"    -> StructureAccepts(spec)
    [] family = "tilelink"     -> TileAccepts(spec)
    [] family = "names"        -> NamesAccept(spec)
    [] family = "asymmetry"    -> AsymmetryAccepts(spec)
    [] family = "t3"           -> T3Accepts(spec)
    [] family = "ualink"       -> UalinkAccepts(spec)
    [] family = "pending"      -> PendingAccepts(spec)
    [] family = "inc"          -> IncAccepts(spec)
    [] family = "certificates" -> CertificatesAccept(spec)
    [] family = "nvlink"       -> NvlinkAccepts(spec)
    [] family = "dcoh"         -> DcohAccepts(spec)
    [] family = "ingress"      -> IngressAccepts(spec)
    [] family = "orders"       -> MayFollow(spec.done, spec.requested) /\ CodesOrdered(spec.a, spec.b)
    [] family = "snoops"       -> SnoopsAccept(spec)
    [] family = "symmetric"    -> IsSymmetric(spec)

(* The compiler evaluates the assertions, or a test calls the checks.      *)
SpecNext ==
  /\ verdict = "unread"
  /\ verdict' = IF Accepts THEN "accepted" ELSE "refused"
  /\ UNCHANGED <<family, spec>>

SpecTypeOK == family \in Families /\ verdict \in {"unread", "accepted", "refused"}

-----------------------------------------------------------------------------
(* The tables as they are declared.                                        *)
Declared ==
  CASE family = "mesif"        -> spec = MesifDeclared
    [] family = "cxl"          -> spec = CxlDeclared
    [] family = "structure"    -> spec = CxlStructure
    [] family = "tilelink"     -> spec = TileDeclared
    [] family = "names"        -> spec = [states |-> TileStates, events |-> TileEvents]
    [] family = "asymmetry"    -> spec = Asymmetry
    [] family = "t3"           -> spec = T3Declared
    [] family = "ualink"       -> spec = UalinkDeclared
    [] family = "pending"      -> spec = PendingDeclared
    [] family = "inc"          -> spec = IncPrimitives
    [] family = "certificates" -> spec = CertificateDeclared
    [] family = "nvlink"       -> spec = NvlinkDeclared
    [] family = "dcoh"         -> spec = DcohDeclared
    [] family = "ingress"      -> TRUE
    [] family = "orders"       -> spec.done /\ spec.a < spec.b
    [] family = "snoops"       -> spec = DeviceSnoops
    [] family = "symmetric"    -> spec = Capabilities

(* The tests of the source registry ask the declared tables whether the    *)
(* kind of each basis fits the kind of source it cites.                    *)
RefKindsConsistent ==
  CASE family = "cxl"      -> \A c \in DOMAIN spec : CxlRefConsistent(spec[c])
    [] family = "tilelink" -> \A c \in DOMAIN spec : TileRefConsistent(spec[c])
    [] family = "t3"       -> \A c \in DOMAIN spec : T3RefConsistent(spec[c])
    [] family = "ualink"   -> \A c \in DOMAIN spec : RefKindConsistent(spec[c])
    [] family = "nvlink"   -> \A c \in DOMAIN spec : BasisKindConsistent(spec[c], {"Adr", "Derived"})
    [] family = "dcoh"     -> /\ \A c \in DOMAIN spec : BasisKindConsistent(spec[c], {"Derived"})
                              /\ \A i \in 1 .. 4 : DcohPermOf(DcohStates[i]) = DcohProjection[i]
    [] OTHER               -> TRUE

DeclaredIsAccepted == Declared => verdict # "refused" /\ RefKindsConsistent

(* What the protocol engines rely on when they use a table that was        *)
(* accepted: by its own events alone a MESIF cache that may not write      *)
(* never comes to write without taking the line exclusively first, and a   *)
(* copy that is dirty in the table as declared stays so.                   *)
MesifReach(t, s, events) ==
  LET f[n \in 0 .. 5] ==
        IF n = 0 THEN {s} ELSE f[n - 1] \cup {MesifTo(t, x, e) : x \in f[n - 1], e \in events}
  IN  f[5]

MesifIsSafe ==
  /\ \A s \in {"I", "S", "F"} : ~\E x \in MesifReach(spec, s, {"Wr"}) : WriteIsLegal(x)
  /\ \A s \in ToSet(MesifStates) \ {"F"} :
       \A x \in MesifReach(spec, s, {"Wr", "Rd"}) :
         Rank(MesifPermOf(spec, x)) >= Rank(MesifPermOf(spec, s))
  /\ spec = MesifDeclared => MesifReach(spec, "M", MesifLocal) = {"M"}

(* No evidence is weakened unseen: where a table differs from the declared *)
(* one in what it says of its sources, a check refuses it.                 *)
EvidenceIsWhole ==
  CASE family = "mesif" ->
         \A c \in DOMAIN spec : [spec[c] EXCEPT !.to = ""] = [MesifDeclared[c] EXCEPT !.to = ""]
    [] family = "cxl" ->
         /\ \A c \in DOMAIN spec : spec[c].kind \in {"Known", "Illegal"} /\ ~spec[c].pending
              => CxlRefConsistent([spec[c] EXCEPT !.basis = "Direct"])
         /\ {c \in DOMAIN spec : ~CxlDecided(spec[c])} \subseteq
            {c \in DOMAIN spec : ~CxlDecided(CxlDeclared[c])}
    [] family = "tilelink" -> \A c \in DOMAIN spec : Cardinality(spec[c].to) =
                                                     Cardinality(TileDeclared[c].to)
    [] family = "t3" -> \A i \in DOMAIN spec :
                          /\ Consumed(spec, spec[i].intent) = spec[i].events
                          /\ spec[i].cites = "" => spec[i].events = {}
    [] family = "ualink" -> \A i \in DOMAIN spec : RefKindConsistent(spec[i])
    [] family \in {"nvlink", "dcoh"} ->
         \A i \in DOMAIN spec : spec[i].source \in {"S1", "S4", "Derived"} => spec[i].pending
    [] family = "orders" -> ~CodesOrdered(spec.b, spec.a) /\ (spec.requested => spec.done)
    [] family = "snoops" -> \A ch \in spec : MemChannels[ch] = "local"
    [] family = "asymmetry" -> spec["Probe"] \cap (spec["Grant"] \cup spec["GrantData"]) = {}
    [] family = "inc" -> \A op \in DOMAIN spec : Len(spec[op]) >= PrimitiveCount(op)
    [] family = "pending" -> {spec[i].ref : i \in DOMAIN spec} = 1 .. 7
    [] OTHER -> TRUE

SpecsSound ==
  /\ DeclaredIsAccepted
  /\ verdict = "accepted" => EvidenceIsWhole /\ (family = "mesif" => MesifIsSafe)

=============================================================================
