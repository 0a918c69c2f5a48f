--------------------------- MODULE CoherenceTables ---------------------------
(***************************************************************************)
(* The state tables of four protocol families (src/include/tlm/cep/        *)
(* mesif_state_spec.hh, chi_rnf_adapter.hh, cxl_state_spec.hh,             *)
(* tilelink_state_spec.hh), put to use: the caches of one line take the    *)
(* local event of the table and a home, which is outside the source,       *)
(* snoops the caches that hold the line in the same step.  A cell the      *)
(* table calls Unknown, or leaves without a target, is never used: the     *)
(* specification asks its consumers to fall back.  The evidence, notes and *)
(* compile-time counts of the tables are left out.                         *)
(***************************************************************************)
EXTENDS FiniteSets

CONSTANT Caches   \* the caches that may hold the line

VARIABLES
  family,   \* whose table is used
  copy      \* cache -> state of the line

tableVars == <<family, copy>>

(* MesifStateSpec::kTable.transition                                       *)
MesifTable(s, e) ==
  CASE e = "Rd"        -> IF s = "I" THEN "S" ELSE s
    [] e = "RdUnique"  -> IF s = "M" THEN "M" ELSE "E"
    [] e = "Wr"        -> IF s = "E" THEN "M" ELSE s
    [] e = "Upgrade"   -> IF s \in {"S", "F"} THEN "E" ELSE s
    [] e = "SnpShared" -> IF s \in {"E", "M"} THEN "F" ELSE s
    [] e = "SnpUnique" -> "I"

(* Mutant: a clean unique line keeps its state when it is read by another. *)
ChiTableKeepsUnique(s, e) ==
  CASE e = "Rd"        -> IF s = "I" THEN "SC" ELSE s
    [] e = "RdUnique"  -> IF s = "I" THEN "UC" ELSE s
    [] e = "Wr"        -> IF s = "UC" THEN "UD" ELSE s
    [] e = "Upgrade"   -> IF s = "SC" THEN "UC" ELSE s
    [] e = "SnpShared" -> IF s = "UC" THEN "UC" ELSE "SC"
    [] e = "SnpUnique" -> "I"

(* ChiRnfAdapter::kStateTransition                                         *)
ChiTable(s, e) ==
  CASE e = "Rd"        -> IF s = "I" THEN "SC" ELSE s
    [] e = "RdUnique"  -> IF s = "I" THEN "UC" ELSE s
    [] e = "Wr"        -> IF s = "UC" THEN "UD" ELSE s
    [] e = "Upgrade"   -> IF s = "SC" THEN "UC" ELSE s
    [] e = "SnpShared" -> "SC"
    [] e = "SnpUnique" -> "I"

(* CxlStateSpec::kTransitions: the target of a Known cell.                 *)
CxlTable(s, e) ==
  CASE e = "RdShared" /\ s = "I"                     -> {"S"}
    [] e \in {"RdCurr", "SnpCurr"}                   -> {s}
    [] e \in {"RdOwn", "RdOwnNoData"} /\ s \in {"I", "S"} -> {"M"}
    [] e = "DirtyEvict" /\ s = "M"                   -> {"I"}
    [] e \in {"CleanEvict", "CleanEvictNoData"} /\ s # "M" -> {"I"}
    [] e = "SnpInv" /\ s # "I"                       -> {"I"}
    [] e = "SnpData" /\ s # "I"                      -> {"S"}
    [] OTHER                                         -> {}

(* TileLinkStateSpec::kTransitions: the target mask.                       *)
TileLinkTable(s, e) ==
  CASE e = "Cap"    -> {"Nothing", "Branch", "Tip"}
    [] e = "Grow"   -> CASE s = "Nothing" -> {"Branch", "Tip"}
                         [] s = "Branch"  -> {"Tip"}
                         [] OTHER         -> {}
    [] e = "Prune"  -> CASE s = "Branch" -> {"Nothing"}
                         [] s = "Tip"    -> {"Branch", "Nothing"}
                         [] OTHER        -> {}
    [] e = "Report" -> {s}

Invalid == [mesif |-> "I", chi |-> "I", cxl |-> "I", tilelink |-> "Nothing"]

(* The states whose permission lets the holder write (write_is_legal,      *)
(* perm_of = WRITEBACK in a table without a shared owner).                 *)
Writing == [mesif |-> {"E", "M"}, chi |-> {"UC", "UD"},
            cxl |-> {"E", "M"}, tilelink |-> {"Tip"}]

Targets(s, e) ==
  CASE family = "mesif" -> {MesifTable(s, e)}
    [] family = "chi"   -> {ChiTable(s, e)}
    [] family = "cxl"   -> CxlTable(s, e)
    [] OTHER            -> TileLinkTable(s, e)

(* The local events and the snoop each makes the home send.                *)
LocalEvents ==
  CASE family \in {"mesif", "chi"} ->
         {<<"Rd", "SnpShared">>, <<"RdUnique", "SnpUnique">>,
          <<"Upgrade", "SnpUnique">>, <<"Wr", "none">>}
    [] family = "cxl" ->
         {<<"RdShared", "SnpData">>, <<"RdCurr", "SnpCurr">>,
          <<"RdOwn", "SnpInv">>, <<"RdOwnNoData", "SnpInv">>,
          <<"DirtyEvict", "none">>, <<"CleanEvict", "none">>,
          <<"CleanEvictNoData", "none">>}
    [] OTHER -> {<<"Grow", "Prune">>, <<"Prune", "none">>, <<"Report", "none">>}

TableInit ==
  /\ family \in DOMAIN Invalid
  /\ copy = [c \in Caches |-> Invalid[family]]

(* What the others may become: a holder takes the snoop, TileLink's home   *)
(* asks for no more than the grown permission needs.                       *)
Others(o, snoop, grown) ==
  IF snoop = "none" \/ copy[o] = Invalid[family] THEN {copy[o]}
  ELSE IF family = "tilelink"
  THEN IF grown = "Tip" THEN Targets(copy[o], "Prune") \cap {"Nothing"}
       ELSE IF copy[o] = "Branch" THEN Targets(copy[o], "Report")
       ELSE Targets(copy[o], "Prune") \cap {"Branch"}
  ELSE Targets(copy[o], snoop)

TableStep(c, e, snoop) ==
  \E to \in Targets(copy[c], e) :
    /\ \A o \in Caches \ {c} : Others(o, snoop, to) # {}
    /\ copy' = [o \in Caches |-> IF o = c THEN to
                 ELSE CHOOSE s \in Others(o, snoop, to) : TRUE]
    /\ UNCHANGED family

TableNext ==
  \E c \in Caches, step \in LocalEvents : TableStep(c, step[1], step[2])

TableSpec == TableInit /\ [][TableNext]_tableVars

-----------------------------------------------------------------------------
(* At most one cache may write the line and nobody reads it beside a       *)
(* writer, after any sequence of table steps: the tables of a family agree *)
(* on what the local events and the snoops of the same request leave       *)
(* behind.                                                                 *)
OneWriter ==
  \A c \in Caches : copy[c] \in Writing[family] =>
    \A o \in Caches \ {c} : copy[o] = Invalid[family]
=============================================================================
