------------------------------ MODULE TlpCodec ------------------------------
(***************************************************************************)
(* A TLP as a bundle, as a descriptor and on the wire: PcieTlpWireBundle   *)
(* and the PcieTlpCodec behind it.  The wire is a sequence of words: three *)
(* of the header, the payload, the checksum.  A checksum is the sequence   *)
(* it is computed over, so it tells any two contents apart.                *)
(*                                                                         *)
(* Sizes are counted in words: MaxDw stands for 1024, the length that is   *)
(* coded as 0, for the words of a bundle's payload and for those of the    *)
(* buffer of 4096 bytes.                                                   *)
(***************************************************************************)
EXTENDS Integers, Sequences, SequencesExt

CONSTANTS
  Bundles,    \* bundles a sender may have
  Foreign,    \* what a peer with an encoder of its own sends
  MaxDw,      \* 1024
  CountMod,   \* 2^11: three of the four high bits of the byte count are kept
  TagMod      \* 2^8

VARIABLES
  sent,       \* the bundle that was packed, or none
  wire,       \* the words under way, << >> when there are none
  intact,     \* nothing happened to them
  got,        \* the receiver's bundle
  verdict     \* what the codec says of the words: a kind, malformed, an error

codecVars == <<sent, wire, intact, got, verdict>>

None == << >>
Blank == [kind |-> "MMIO_READ", length |-> 0, req |-> 0, tag |-> 0, addr |-> 0, count |-> 0, payload |-> << >>]

CodecInit ==
  /\ sent = None /\ wire = << >> /\ intact = TRUE
  /\ got = Blank
  /\ verdict = "none"

-----------------------------------------------------------------------------
Coded(dw) == IF dw >= MaxDw THEN 0 ELSE dw
Decoded(len) == IF len = 0 THEN MaxDw ELSE len

Dw0(fmt, type, len) == [fmt |-> fmt, type |-> type, td |-> 0, len |-> Coded(len)]
Checksum(words) == [over |-> words]
Sealed(words) == Append(words, Checksum(words))
Word(b, i) == [w |-> IF i \in DOMAIN b.payload THEN b.payload[i] ELSE 0]

EncodeMrd(b) == Sealed(<<Dw0(0, 0, b.length), [id |-> b.req, tag |-> b.tag], [addr |-> b.addr]>>)

EncodeMwr(b) ==
  Sealed(<<Dw0(2, 0, Decoded(b.length)), [id |-> b.req, tag |-> b.tag], [addr |-> b.addr]>>
           \o [i \in 1..Decoded(b.length) |-> Word(b, i)])

EncodeCpld(b) ==
  Sealed(<<Dw0(2, 10, Decoded(b.length)), [count |-> b.count % CountMod],
           [id |-> b.req, tag |-> b.tag]>>
           \o [i \in 1..Decoded(b.length) |-> Word(b, i)])

(* tlp_pack_to_bytes: no other kind is packed, and what the buffer does    *)
(* not hold is cut off.                                                    *)
Packed(b) ==
  LET words == CASE b.kind = "MEM_READ"  -> EncodeMrd(b)
                 [] b.kind = "MEM_WRITE" -> EncodeMwr(b)
                 [] b.kind = "CPLD"      -> EncodeCpld(b)
                 [] OTHER -> << >>
  IN  SubSeq(words, 1, IF Len(words) < MaxDw THEN Len(words) ELSE MaxDw)

HasData(w) == w[1].fmt \in {2, 3, 6, 7}
PayloadDw(w) == IF HasData(w) THEN Decoded(w[1].len) ELSE 0

(* PcieTlpCodec::decode: the error, or none.                               *)
DecodeError(w) ==
  IF Len(w) < 4 THEN "TooShort"
  ELSE IF w[1].fmt >= 4 THEN "Unsupported4Dw"
  ELSE IF Len(w) < 3 + PayloadDw(w) + 1 THEN "IncompleteData"
  ELSE "none"

(* The word after the payload is taken for the LCRC and, when there is a   *)
(* digest, for the ECRC as well.                                           *)
LcrcValid(w) == w[4 + PayloadDw(w)] = Checksum(SubSeq(w, 1, 3 + PayloadDw(w)))
EcrcValid(w) == Len(w) >= 5 + PayloadDw(w) /\ LcrcValid(w)

IsMalformed(w) == ~LcrcValid(w) \/ (w[1].td = 1 /\ ~EcrcValid(w))

Classify(w) ==
  LET data == HasData(w)
      kind(with, without) == IF data THEN with ELSE without
  IN  CASE w[1].type = 0  -> kind("MWr", "MRd")
        [] w[1].type = 10 -> kind("CplD", "Cpl")
        [] w[1].type = 5  -> kind("CfgWr0", "CfgRd0")
        [] w[1].type = 4  -> kind("CfgWr1", "CfgRd1")
        [] w[1].type = 18 -> "Msg"
        [] w[1].type = 26 -> "MsgD"
        [] OTHER -> "Unknown"

KindOf(w) ==
  CASE Classify(w) = "MRd"  -> "MEM_READ"
    [] Classify(w) = "MWr"  -> "MEM_WRITE"
    [] Classify(w) = "CplD" -> "CPLD"
    [] Classify(w) \in {"CfgRd0", "CfgRd1"} -> "CFG_READ"
    [] Classify(w) \in {"CfgWr0", "CfgWr1"} -> "CFG_WRITE"
    [] OTHER -> "MMIO_READ"

(* Which fields the header has goes by the type; a field it has not is 0.  *)
Completion(w) == w[1].type = 10
Field(r, f) == IF f \in DOMAIN r THEN r[f] ELSE 0

(* tlp_unpack_from_bytes: an error leaves the bundle alone, a checksum     *)
(* that does not match is no error, and payload that is not overwritten    *)
(* stays.                                                                  *)
Unpacked(b, w) ==
  IF DecodeError(w) # "none" THEN b
  ELSE LET ids == IF Completion(w) THEN w[3] ELSE w[2]
           n   == PayloadDw(w)
       IN  [kind |-> KindOf(w), length |-> w[1].len,
            req |-> Field(ids, "id"), tag |-> Field(ids, "tag"),
            addr |-> IF w[1].type = 0 THEN Field(w[3], "addr") ELSE 0,
            count |-> IF Completion(w) THEN Field(w[2], "count") ELSE 0,
            payload |-> [i \in 1..(IF n > Len(b.payload) THEN n ELSE Len(b.payload)) |->
                           IF i <= n THEN Field(w[3 + i], "w") ELSE b.payload[i]]]

(* to_descriptor and from_descriptor: two words of payload, sizes in       *)
(* words, and the read that a completion becomes.                          *)
ToDescriptor(b) ==
  [kind |-> IF b.kind = "CPLD" THEN "MMIO_READ" ELSE b.kind, size |-> Decoded(b.length),
   req |-> b.req, trans |-> b.tag, offset |-> b.addr, data |-> <<Word(b, 1).w, Word(b, 2).w>>]

FromDescriptor(d) ==
  [kind |-> d.kind, length |-> Coded(d.size), req |-> d.req, tag |-> d.trans % TagMod,
   addr |-> d.offset, count |-> 0, payload |-> d.data]

-----------------------------------------------------------------------------
Pack(b) ==
  /\ wire = << >>
  /\ sent' = b /\ wire' = Packed(b) /\ intact' = TRUE
  /\ UNCHANGED <<got, verdict>>

(* The same by way of a descriptor, whose ids have more bits.              *)
PackDescriptor(b, wraps) ==
  /\ wire = << >>
  /\ LET d == [ToDescriptor(b) EXCEPT !.trans = @ + wraps * TagMod]
     IN  sent' = FromDescriptor(d) /\ wire' = Packed(sent') /\ intact' = TRUE
  /\ UNCHANGED <<got, verdict>>

Receive(w) ==
  /\ wire = << >>
  /\ sent' = None /\ wire' = w /\ intact' = TRUE
  /\ UNCHANGED <<got, verdict>>

(* The wire loses words, or changes one.                                   *)
Cut ==
  /\ wire # << >> /\ intact
  /\ wire' = SubSeq(wire, 1, Len(wire) - 1) /\ intact' = FALSE
  /\ UNCHANGED <<sent, got, verdict>>

Garble(i) ==
  /\ i \in DOMAIN wire /\ i > 1 /\ intact
  /\ wire' = [wire EXCEPT ![i] = [noise |-> i]] /\ intact' = FALSE
  /\ UNCHANGED <<sent, got, verdict>>

GarbleLength(n) ==
  /\ wire # << >> /\ intact /\ n # wire[1].len
  /\ wire' = [wire EXCEPT ![1].len = n] /\ intact' = FALSE
  /\ UNCHANGED <<sent, got, verdict>>

Unpack ==
  /\ wire # << >>
  /\ got' = Unpacked(got, wire)
  /\ verdict' = IF DecodeError(wire) # "none" THEN DecodeError(wire)
                ELSE IF IsMalformed(wire) THEN "malformed" ELSE Classify(wire)
  /\ wire' = << >> /\ UNCHANGED <<sent, intact>>

CodecNext ==
  \/ \E b \in Bundles : Pack(b) \/ \E n \in {0, 1} : PackDescriptor(b, n)
  \/ \E w \in Foreign : Receive(w)
  \/ Cut \/ Unpack
  \/ \E i \in 2..(MaxDw + 4) : Garble(i)
  \/ \E n \in 0..(MaxDw - 1) : GarbleLength(n)

CodecSpec == CodecInit /\ [][CodecNext]_codecVars
-----------------------------------------------------------------------------
Packable(b) == b.kind \in {"MEM_READ", "MEM_WRITE", "CPLD"}
Fits(b) == b.kind = "MEM_READ" \/ Decoded(b.length) + 4 <= MaxDw

(* What a bundle says arrives, if nothing happens on the wire and it fits: *)
(* the sender's and the receiver's bundle agree in all that the kind       *)
(* carries, the byte count up to its eleventh bit.                         *)
WireIsFaithful ==
  sent # None /\ intact /\ wire # << >> =>
    LET b == Unpacked(got, wire)
    IN  IF ~Fits(sent) THEN b = got
        ELSE /\ b.kind = sent.kind /\ b.length = sent.length
             /\ b.req = sent.req /\ b.tag = sent.tag
             /\ IF sent.kind = "CPLD" THEN b.count = sent.count % CountMod ELSE b.addr = sent.addr
             /\ sent.kind # "MEM_READ" =>
                  \A i \in 1..Decoded(sent.length) : b.payload[i] = Word(sent, i).w

(* The verdict finds everything that happens to the words of a bundle, but *)
(* the bundle is unpacked whatever it says.                                *)
FaultsAreSeen ==
  sent # None /\ wire # << >> /\ Fits(sent) =>
    intact = (DecodeError(wire) = "none" /\ ~IsMalformed(wire))

WireSound == WireIsFaithful /\ FaultsAreSeen
=============================================================================
