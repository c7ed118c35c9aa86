------------------------------ MODULE SpikeLog ------------------------------
(***************************************************************************)
(* The commit log of Spike as text, and its parser.  A line is a sequence  *)
(* of words; a word is its leading letters, the number that follows them,  *)
(* the digits of that number, and the rest:                                *)
(*   x5 = ["x", 5, 1, ""]   0: = ["", 0, 1, ":"]   0x1f = ["0x", 31, 2, ""] *)
(*   c773_mtvec = ["c", 773, 3, "mtvec"]   mem = ["mem", NoNumber, 0, ""]   *)
(* Spike is external: PrintLine is what the parser expects of it.          *)
(***************************************************************************)
EXTENDS Integers, Sequences
Ext == INSTANCE SequencesExt

CONSTANT Base  \* of the digits: a number that loses one is divided by it

ASSUME BaseAssumption == Base \in Nat \ {0}

NoNumber == -1
Word(lead, num, digits, rest) == [lead |-> lead, num |-> num, digits |-> digits, rest |-> rest]
Plain(lead) == Word(lead, NoNumber, 0, "")
Reg(lead, num) == Word(lead, num, 1, "")
Hex(num, digits) == Word("0x", num, digits, "")

-----------------------------------------------------------------------------
(* Spike's printer, and what is left when Spike is killed as it prints *)

\* A modification: kind, index or address, the name of a CSR, value
Modification(kind, idx, name, bits) ==
  [kind |-> kind, idx |-> idx, name |-> name, bits |-> bits]

XlenDigits == 8
VlenDigits == 16   \* 64 in Spike: any other multiple of 8

PrintMod(m) ==
  CASE m.kind \in {"x", "f"} -> <<Reg(m.kind, m.idx), Hex(m.bits, XlenDigits)>>
    [] m.kind = "v" -> <<Reg("v", m.idx), Hex(m.bits, VlenDigits)>>
    [] m.kind = "csr" -> <<Word("c", m.idx, 2, m.name), Hex(m.bits, XlenDigits)>>
    [] m.kind = "ctx" -> <<Reg("e", 32), Reg("mf", 2), Reg("l", m.bits)>>
    [] m.kind = "load" -> <<Plain("mem"), Hex(m.idx, XlenDigits)>>
    [] m.kind = "store" -> <<Plain("mem"), Hex(m.idx, XlenDigits), Hex(m.bits, XlenDigits)>>

PrintLine(commit) ==
  <<Plain("core"), Word("", 0, 1, ":"), Word("", 3, 1, ""), Hex(commit.pc, XlenDigits),
    Word("(0x", commit.inst, XlenDigits, ")")>>
  \o Ext!FlattenSeq([i \in DOMAIN commit.mods |-> PrintMod(commit.mods[i])])

LeadCuts(lead) ==
  CASE lead = "core" -> {Plain("c"), Plain("co")}
    [] lead = "mem" -> {Plain("m"), Plain("me")}
    [] lead = "(0x" -> {Plain("(")}
    [] lead = "0x" -> {Word("", 0, 1, "")}
    [] lead = "mf" -> {Plain("m")}
    [] OTHER -> {}

\* Some of the proper prefixes of a word: the rest, digits, all the digits,
\* and then letters may be missing.
WordCuts(w) ==
  (IF w.rest = "" THEN {} ELSE {[w EXCEPT !.rest = ""]})
  \cup (IF w.lead = "c" THEN {[w EXCEPT !.rest = "part of a name"]} ELSE {})
  \cup {Word(w.lead, w.num \div Base, d, "") : d \in {x \in {w.digits - 1, 8} : 0 < x /\ x < w.digits}}
  \cup (IF w.num # NoNumber /\ w.lead # "" THEN {Plain(w.lead)} ELSE {})
  \cup LeadCuts(w.lead)

LineCuts(line) ==
  {SubSeq(line, 1, n) : n \in 0 .. Len(line)}
  \cup UNION {{SubSeq(line, 1, n - 1) \o <<w>> : w \in WordCuts(line[n])} : n \in DOMAIN line}

-----------------------------------------------------------------------------
(* The tokenizer *)

\* str_to_token: the kind of the token that a word is
Kind(w) ==
  IF w = Plain("core") THEN "CoreLiteral"
  ELSE IF w = Plain("mem") THEN "MemLiteral"
  ELSE IF w.rest = ":" THEN IF w.lead = "" /\ w.num # NoNumber THEN "CoreId" ELSE "Unknown"
  ELSE IF w.lead = "(0x" THEN IF w.rest = ")" /\ w.num # NoNumber THEN "Instruction" ELSE "Unknown"
  ELSE IF w.lead \in {"", "0x"} /\ w.num # NoNumber /\ w.rest = ""
       THEN IF w.lead = "" THEN "NumberLiteral" ELSE "Hexadecimal"
  ELSE IF w.lead \in {"x", "f", "v", "e", "l"} /\ w.num # NoNumber /\ w.rest = "" THEN w.lead
  ELSE IF w.lead \in {"m", "mf", "me"} /\ w # Plain("m") THEN "Lmul"
  ELSE IF w.lead = "c" /\ w.rest # "" THEN "Csr"
  ELSE "Unknown"

-----------------------------------------------------------------------------
(* The parser *)

\* What the parser makes of the words from i on: a modification of so many
\* words, the end of the modifications, or an error.
Found(words, mod) == [result |-> "mod", words |-> words, mod |-> mod]
Failed == [result |-> "error", words |-> 0, mod |-> Modification("none", 0, "", 0)]
Stop == [Failed EXCEPT !.result = "stop"]

IsKind(line, i, kind) == i \in DOMAIN line /\ Kind(line[i]) = kind
IsHex(line, i) == IsKind(line, i, "Hexadecimal")

ParseReg(line, i) ==
  IF IsHex(line, i + 1)
  THEN Found(2, Modification(Kind(line[i]), line[i].num, "", line[i + 1].num))
  ELSE Failed

\* The bytes of a vector register must come in words of four.
ParseVReg(line, i) ==
  IF IsHex(line, i + 1) /\ line[i + 1].digits % 8 = 0
  THEN Found(2, [kind |-> "v", idx |-> line[i].num,
                 name |-> IF line[i + 1].digits = VlenDigits THEN "" ELSE "short",
                 bits |-> line[i + 1].num])
  ELSE Failed

ParseCsr(line, i) ==
  IF line[i].num # NoNumber /\ IsHex(line, i + 1)
  THEN Found(2, Modification("csr", line[i].num, line[i].rest, line[i + 1].num))
  ELSE Failed

\* An address is followed by data when a store is logged.
\* Mutant: the data is always there.
ParseMemWithData(line, i) ==
  IF IsHex(line, i + 1) /\ i + 2 \in DOMAIN line
  THEN Found(3, Modification("store", line[i + 1].num, "", line[i + 2].num))
  ELSE Failed

ParseMem(line, i) ==
  IF ~IsHex(line, i + 1) THEN Failed
  ELSE IF IsHex(line, i + 2)
  THEN Found(3, Modification("store", line[i + 1].num, "", line[i + 2].num))
  ELSE Found(2, Modification("load", line[i + 1].num, "", 0))

\* sew, lmul with or without a fraction, and vl
ParseVecCtx(line, i) ==
  IF IsKind(line, i + 1, "Lmul") /\ line[i + 1].num # NoNumber /\ IsKind(line, i + 2, "l")
  THEN Found(3, Modification("ctx", 0, "", line[i + 2].num))
  ELSE Failed

\* Any other token ends the line, whatever follows it.
ParseMod(line, i) ==
  CASE Kind(line[i]) \in {"x", "f"} -> ParseReg(line, i)
    [] Kind(line[i]) = "v" -> ParseVReg(line, i)
    [] Kind(line[i]) = "Csr" -> ParseCsr(line, i)
    [] Kind(line[i]) = "MemLiteral" -> ParseMem(line, i)
    [] Kind(line[i]) = "e" -> ParseVecCtx(line, i)
    [] OTHER -> Stop

\* The modifications from word i on, or an error
ParseMods(line) ==
  LET from[i \in 1 .. Len(line) + 1] ==
        IF i > Len(line) THEN [ok |-> TRUE, mods |-> <<>>]
        ELSE LET first == ParseMod(line, i) IN
             IF first.result = "mod"
             THEN [ok |-> from[i + first.words].ok,
                   mods |-> <<first.mod>> \o from[i + first.words].mods]
             ELSE [ok |-> first.result = "stop", mods |-> <<>>]
  IN from[6]

Header == <<"CoreLiteral", "CoreId", "NumberLiteral", "Hexadecimal", "Instruction">>

\* parse_single_commit, after the line was found to have no unknown token
Refused(line) ==
  \/ \E i \in DOMAIN line : Kind(line[i]) = "Unknown"
  \/ \E i \in DOMAIN Header : ~IsKind(line, i, Header[i])
  \/ ~ParseMods(line).ok

Parse(line) == [pc |-> line[4].num, inst |-> line[5].num, mods |-> ParseMods(line).mods]
=============================================================================
