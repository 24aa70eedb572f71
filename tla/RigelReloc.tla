---------------------------- MODULE RigelReloc ----------------------------
(***************************************************************************)
(* The address of a symbol from the code generator to the linked program.  *)
(* The code generator splits it into two instructions, mvui with %hi and   *)
(* addi (or a load) with a sign-extended %lo.  The assembler keeps one     *)
(* fixup for each, replaces local symbols by their section, sorts every    *)
(* %hi before a %lo that matches it and stores the offsets in the          *)
(* instructions, in two halves.  The linker puts the halves together       *)
(* again, adds the symbol, and splits the sum.                             *)
(*                                                                         *)
(* Half stands for 2^16.  An instruction is identified by its position in  *)
(* the section, and its contents are the 16-bit field.                     *)
(***************************************************************************)
EXTENDS Integers, Sequences, FiniteSetsExt, SequencesExt

CONSTANTS
  Half,       \* values of a field, 2^16 in the code
  Section,    \* the section symbol of the file's local symbols
  Local,      \* symbols that adjust_reloc_syms replaces by the section
  SymValue,   \* [Local -> value of the symbol in its section]
  Global,     \* symbols that stay: global, undefined, in a merged section
  Final,      \* [Global \cup {Section} -> address that the linker assigns]
  Offsets,    \* offsets from a symbol that occur in %hi and %lo
  MaxInsns    \* bound on the instructions with a fixup

ASSUME HalfAssumption == Half \in Nat \ {0, 1} /\ Half % 2 = 0
ASSUME SymbolAssumption ==
  /\ SymValue \in [Local -> Nat] /\ Final \in [Global \cup {Section} -> Nat]
  /\ Section \notin Local \cup Global /\ Local \cap Global = {}
  /\ Offsets \subseteq Int /\ MaxInsns \in Nat

VARIABLES
  phase,   \* "emit", "frob", "install", "link" or "done"
  insns,   \* the instructions as they were written: type, symbol, offset
  fix,     \* the fixups, by instruction: fx_r_type, fx_addsy, fx_offset
  chain,   \* the list of fixups (fx_next), later of the relocations
  hiFixups,\* mips_hi_fixup_list, newest first
  hi16,    \* mips_hi16_list of bfd: relocations that wait for a LO16
  pos,     \* position in chain of the running loop
  field    \* contents of each instruction's field

vars == <<phase, insns, fix, chain, hiFixups, hi16, pos, field>>

Field == 0..(Half - 1)
SignExtend(v) == IF v >= Half \div 2 THEN v - Half ELSE v
\* mips_elf_high, and the %hi of a constant: the carry of a negative low half
High(v) == ((v + (Half \div 2)) \div Half) % Half

---------------------------------------------------------------------------
(* The code generator and the assembler's reading of its output.           *)

Matches(f, g) == f.sym = g.sym /\ f.off = g.off

\* The place of element i in the list ch.
PosOf(ch, i) == CHOOSE p \in DOMAIN ch : ch[p] = i

\* fixup_has_matching_lo_p for instruction i of chain ch with fixups fx
FixupHasMatchingLo(fx, ch, i) ==
  LET p == PosOf(ch, i)
  IN  p < Len(ch) /\ fx[ch[p + 1]].type = "lo" /\ Matches(fx[i], fx[ch[p + 1]])

Init ==
  /\ phase = "emit" /\ insns = <<>> /\ fix = <<>> /\ chain = <<>>
  /\ hiFixups = <<>> /\ hi16 = <<>> /\ pos = 1 /\ field = <<>>

\* append_insn.  The scheduler and CSE leave the two parts of an address in any
\* order and number.  A head of mips_hi_fixup_list that has its %lo is reused.
AppendInsn(type, sym, off) ==
  LET i == Len(insns) + 1
      f == [type |-> type, sym |-> sym, off |-> off]
  IN  /\ phase = "emit" /\ i <= MaxInsns
      /\ insns' = Append(insns, f) /\ fix' = Append(fix, f)
      /\ chain' = Append(chain, i) /\ field' = Append(field, 0)
      /\ hiFixups' =
           IF type = "lo" THEN hiFixups
           ELSE IF hiFixups # <<>> /\ FixupHasMatchingLo(fix, chain, Head(hiFixups))
           THEN <<i>> \o Tail(hiFixups)
           ELSE <<i>> \o hiFixups
      /\ UNCHANGED <<phase, hi16, pos>>

\* mips_fix_adjustable: a local symbol becomes an offset from its section.
Adjusted(f) ==
  IF f.sym \in Local THEN [f EXCEPT !.sym = Section, !.off = @ + SymValue[f.sym]] ELSE f

AdjustRelocSyms ==
  /\ phase = "emit" /\ insns # <<>>
  /\ fix' = [i \in DOMAIN fix |-> Adjusted(fix[i])]
  /\ phase' = "frob"
  /\ UNCHANGED <<insns, chain, hiFixups, hi16, pos, field>>

---------------------------------------------------------------------------
(* mips_frob_file: one action for each element of mips_hi_fixup_list.      *)

\* Mutant: the next %lo is taken whatever its offset.
CandidateLosAnyOffset(i) ==
  {p \in DOMAIN chain : /\ fix[chain[p]].type = "lo"
                        /\ fix[chain[p]].sym = fix[i].sym}

CandidateLos(i) ==
  {p \in DOMAIN chain : /\ fix[chain[p]].type = "lo"
                        /\ fix[chain[p]].sym = fix[i].sym
                        /\ fix[chain[p]].off >= fix[i].off}

\* matched_lo_p: the %lo at p follows a %hi that it matches.
MatchedLo(p) ==
  p > 1 /\ fix[chain[p - 1]].type = "hi" /\ FixupHasMatchingLo(fix, chain, chain[p - 1])

\* The loop over the fixups: the smallest offset, then a %lo that no %hi
\* precedes, then the last one; among taken ones the first.
LoPos(i) ==
  LET least == Min({fix[chain[p]].off : p \in CandidateLos(i)})
      best  == {p \in CandidateLos(i) : fix[chain[p]].off = least}
      free  == {p \in best : ~MatchedLo(p)}
  IN  IF free # {} THEN Max(free) ELSE Min(best)

\* The element at place q of ch goes to place p; the ones between close up.
Rotate(ch, q, p) ==
  [k \in DOMAIN ch |-> ch[CASE k = p -> q
                            [] q <= k /\ k < p -> k + 1
                            [] p < k /\ k <= q -> k - 1
                            [] OTHER -> k]]

\* Mutant: the element is linked in without being taken out.
InsertTwice(ch, i, lo) == InsertAt(ch, PosOf(ch, lo), i)

\* Mutant: the low part is moved to the high part.
MoveLoToHi(ch, i, lo) ==
  LET q == PosOf(ch, lo) p == PosOf(ch, i)
  IN  Rotate(ch, q, IF q < p THEN p ELSE p + 1)

\* i leaves its place in the list and goes immediately before lo.
MoveBefore(ch, i, lo) ==
  LET q == PosOf(ch, i) p == PosOf(ch, lo)
  IN  Rotate(ch, q, IF q < p THEN p - 1 ELSE p)

FrobHi ==
  /\ phase = "frob" /\ hiFixups # <<>>
  /\ LET i == Head(hiFixups)
     IN  IF FixupHasMatchingLo(fix, chain, i) \/ CandidateLos(i) = {}
         THEN UNCHANGED <<fix, chain>>
         ELSE LET lo == chain[LoPos(i)]
              IN  /\ fix' = [fix EXCEPT ![i].off = fix[lo].off]
                  /\ chain' = MoveBefore(chain, i, lo)
  /\ hiFixups' = Tail(hiFixups)
  /\ UNCHANGED <<phase, insns, hi16, pos, field>>

\* fix_segment follows: md_apply_fix leaves the offset to the relocation.
FixSegment ==
  /\ phase = "frob" /\ hiFixups = <<>>
  /\ phase' = "install"
  /\ UNCHANGED <<insns, fix, chain, hiFixups, hi16, pos, field>>

---------------------------------------------------------------------------
(* write_relocs installs the relocations in the order of the list.         *)

\* _bfd_mips_elf_hi16_reloc
InstallHi ==
  /\ phase = "install" /\ pos <= Len(chain) /\ fix[chain[pos]].type = "hi"
  /\ hi16' = <<chain[pos]>> \o hi16
  /\ pos' = pos + 1
  /\ UNCHANGED <<phase, insns, fix, chain, hiFixups, field>>

\* Mutant: the low half is not biased before the high half is cut off.
InstalledHighUnbiased(i, vallo) == (field[i] + ((fix[i].off + vallo) \div Half)) % Half

\* The field of a waiting HI16: addend plus biased low half, shifted right.
InstalledHigh(i, vallo) ==
  (field[i] + ((fix[i].off + ((vallo + (Half \div 2)) % Half)) \div Half)) % Half

\* _bfd_mips_elf_lo16_reloc: every waiting HI16, then the LO16 itself.
InstallLo ==
  /\ phase = "install" /\ pos <= Len(chain) /\ fix[chain[pos]].type = "lo"
  /\ LET lo == chain[pos]
     IN  field' = [i \in DOMAIN field |->
                     CASE i \in ToSet(hi16) -> InstalledHigh(i, field[lo])
                       [] i = lo -> (field[lo] + fix[lo].off) % Half
                       [] OTHER -> field[i]]
  /\ hi16' = <<>>
  /\ pos' = pos + 1
  /\ UNCHANGED <<phase, insns, fix, chain, hiFixups>>

ObjectWritten ==
  /\ phase = "install" /\ pos > Len(chain)
  /\ phase' = "link" /\ pos' = 1
  /\ UNCHANGED <<insns, fix, chain, hiFixups, hi16, field>>

---------------------------------------------------------------------------
(* The linker: _bfd_mips_elf_relocate_section, one relocation at a time.   *)

\* mips_elf_next_relocation: the first LO16 from here on with the same symbol.
NextLos == {p \in pos..Len(chain) : /\ fix[chain[p]].type = "lo"
                                    /\ fix[chain[p]].sym = fix[chain[pos]].sym}

CombinedAddend(hi, lo) == (field[hi] * Half) + SignExtend(field[lo])

\* Without a LO16 the linker complains and uses the field as it is.
RelocateHi ==
  /\ phase = "link" /\ pos <= Len(chain) /\ fix[chain[pos]].type = "hi"
  /\ LET hi == chain[pos]
         addend == IF NextLos = {} THEN field[hi]
                   ELSE CombinedAddend(hi, chain[Min(NextLos)])
     IN  field' = [field EXCEPT ![hi] = High(addend + Final[fix[hi].sym])]
  /\ pos' = pos + 1
  /\ UNCHANGED <<phase, insns, fix, chain, hiFixups, hi16>>

RelocateLo ==
  /\ phase = "link" /\ pos <= Len(chain) /\ fix[chain[pos]].type = "lo"
  /\ LET lo == chain[pos]
     IN  field' = [field EXCEPT ![lo] = (Final[fix[lo].sym] + @) % Half]
  /\ pos' = pos + 1
  /\ UNCHANGED <<phase, insns, fix, chain, hiFixups, hi16>>

Linked ==
  /\ phase = "link" /\ pos > Len(chain)
  /\ phase' = "done"
  /\ UNCHANGED <<insns, fix, chain, hiFixups, hi16, pos, field>>

Next ==
  \/ \E type \in {"hi", "lo"}, sym \in Local \cup Global, off \in Offsets :
       AppendInsn(type, sym, off)
  \/ AdjustRelocSyms
  \/ FrobHi \/ FixSegment
  \/ InstallHi \/ InstallLo \/ ObjectWritten
  \/ RelocateHi \/ RelocateLo \/ Linked

Spec == Init /\ [][Next]_vars

---------------------------------------------------------------------------
Address(f) ==
  (f.off + (IF f.sym \in Local THEN Final[Section] + SymValue[f.sym]
                               ELSE Final[f.sym])) % (Half * Half)

Fixup == [type : {"hi", "lo"}, sym : Local \cup Global \cup {Section}, off : Int]

\* Types, and the lists stay what they are: the chain keeps every fixup once
\* while mips_frob_file moves them, and the two lists of high parts hold high
\* parts only.
RelocTypeOK ==
  /\ phase \in {"emit", "frob", "install", "link", "done"}
  /\ insns \in Seq(Fixup) /\ fix \in Seq(Fixup) /\ field \in Seq(Field)
  /\ Len(fix) = Len(insns) /\ Len(field) = Len(insns) /\ Len(chain) = Len(insns)
  /\ chain \in Seq(Nat) /\ ToSet(chain) = DOMAIN insns
  /\ \A i \in DOMAIN insns : fix[i].type = insns[i].type
  /\ hiFixups \in Seq(DOMAIN insns) /\ hi16 \in Seq(DOMAIN insns)
  /\ \A i \in ToSet(hiFixups) \cup ToSet(hi16) : fix[i].type = "hi"
  /\ pos \in 1..(Len(chain) + 1)

\* "Somehow, the assembler knows how to manipulate the expansion of %hi() and
\* %lo() to produce the correct value even when %lo() will be interpreted as
\* negative" (RigelInstrInfo.td:671): in the linked program, any mvui and any
\* addi that name the same address add up to it, wherever the scheduler has put
\* them and however many of them share a partner.
AddressesResolved ==
  phase = "done" =>
    \A i, j \in DOMAIN insns :
      (insns[i].type = "hi" /\ insns[j].type = "lo" /\ Matches(insns[i], insns[j])) =>
        ((field[i] * Half) + SignExtend(field[j])) % (Half * Half) = Address(insns[i])

\* After mips_frob_file, the first LO16 that the linker finds from a HI16 on is
\* one with the HI16's own address, for every HI16 whose address some %lo names.
HiMeetsItsLo ==
  (phase \in {"install", "link"} /\ pos = 1) =>
    \A p \in DOMAIN chain :
      LET i == chain[p]
          los == {q \in p..Len(chain) : fix[chain[q]].type = "lo"
                                        /\ fix[chain[q]].sym = fix[i].sym}
      IN  (insns[i].type = "hi"
             /\ \E j \in DOMAIN insns : insns[j].type = "lo" /\ Matches(insns[i], insns[j])) =>
          los # {} /\ Address(insns[chain[Min(los)]]) = Address(insns[i])

Precedes(ch, i, j) == \E p, q \in DOMAIN ch : p < q /\ ch[p] = i /\ ch[q] = j

\* The low parts keep their order and their offsets when the list is sorted: only
\* high parts move (mips_frob_file).
OnlyHighPartsMove ==
  [][phase = "frob" =>
       \A i \in DOMAIN fix : fix[i].type = "lo" =>
         /\ fix'[i] = fix[i]
         /\ \A j \in DOMAIN fix :
              fix[j].type = "lo" => (Precedes(chain', i, j) <=> Precedes(chain, i, j))]_vars

---------------------------------------------------------------------------
(* The inductive invariant behind the properties.                          *)

HighParts == {i \in DOMAIN insns : insns[i].type = "hi"}
LowParts == {i \in DOMAIN insns : insns[i].type = "lo"}
HasLo(i) == \E j \in LowParts : Matches(insns[i], insns[j])

\* The chain holds each fixup once.
ChainInv == \A p, q \in DOMAIN chain : chain[p] = chain[q] => p = q

\* Up to the replacement of local symbols, the fixups of the low parts and those
\* of the high parts that have a partner say what was written.
FixInv ==
  /\ \A i \in DOMAIN insns : insns[i].sym # Section
  /\ phase = "emit" => fix = insns
  /\ phase # "emit" =>
       \A i \in DOMAIN insns :
         /\ fix[i].sym = Adjusted(insns[i]).sym
         /\ i \in LowParts \/ HasLo(i) => fix[i].off = Adjusted(insns[i]).off

\* l is the first low part with i's symbol that follows i, and matches i.
Meets(i, l) ==
  /\ l \in LowParts /\ Matches(fix[i], fix[l]) /\ Precedes(chain, i, l)
  /\ \A m \in LowParts :
       (m # l /\ fix[m].sym = fix[i].sym /\ Precedes(chain, i, m)) => Precedes(chain, l, m)

\* A high part that append_insn took off the list has its low part behind it; one
\* that mips_frob_file has dealt with meets a low part if there is one for it.
SortInv ==
  /\ phase \notin {"emit", "frob"} => hiFixups = <<>>
  /\ \A i \in HighParts \ ToSet(hiFixups) :
       IF phase = "emit" THEN FixupHasMatchingLo(fix, chain, i)
       ELSE HasLo(i) => \E l \in LowParts : Meets(i, l)

\* Contents of the fields while the relocations are installed: the high parts
\* that wait are those since the last low part.
InstallInv ==
  /\ phase \in {"emit", "frob"} => pos = 1 /\ hi16 = <<>> /\ \A i \in DOMAIN field : field[i] = 0
  /\ phase = "install" =>
       \A p \in DOMAIN chain :
         /\ chain[p] \in LowParts =>
              field[chain[p]] = IF p < pos THEN fix[chain[p]].off % Half ELSE 0
         /\ chain[p] \in HighParts =>
              field[chain[p]] = IF p < pos /\ chain[p] \notin ToSet(hi16)
                                THEN High(fix[chain[p]].off) ELSE 0
         /\ chain[p] \in ToSet(hi16) =>
              p < pos /\ \A q \in p..Len(chain) : q < pos => chain[q] \in HighParts

\* Contents of the fields while the linker relocates them.
LinkInv ==
  phase \in {"link", "done"} =>
    \A p \in DOMAIN chain :
      LET i == chain[p]
          low == fix[i].off % Half
          addend == (High(fix[i].off) * Half) + SignExtend(low)
      IN  /\ i \in LowParts =>
               field[i] = IF p < pos THEN (Final[fix[i].sym] + low) % Half ELSE low
          /\ i \in HighParts /\ HasLo(i) =>
               field[i] = IF p < pos THEN High(addend + Final[fix[i].sym])
                          ELSE High(fix[i].off)
          /\ phase = "done" => p < pos

RelocInv == RelocTypeOK /\ ChainInv /\ FixInv /\ SortInv /\ InstallInv /\ LinkInv
===========================================================================
