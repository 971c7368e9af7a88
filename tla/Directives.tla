----------------------------- MODULE Directives -----------------------------
(***************************************************************************)
(* The directives of a method, grouped by family in the order in which the *)
(* families are asked.  A directive is [family, name] and what belongs to  *)
(* it.                                                                     *)
(***************************************************************************)
EXTENDS Naturals, Sequences, SequencesExt, TLC

CONSTANTS None,       \* an absent value (null, undefined)
          Mandatory   \* the directive families with `mandatory` set

(* Directives.create: mandatory families go first, the rest keep their     *)
(* order; a set per family, in order of first appearance, after the        *)
(* mandatory families that nothing was declared for.                       *)
DirectiveSets(declared) ==
    LET IsMandatory(d) == d.family \in Mandatory
        sorted == SelectSeq(declared, IsMandatory)
                  \o SelectSeq(declared, LAMBDA d : ~IsMandatory(d))
        families == FoldLeft(LAMBDA acc, d : IF d.family \in ToSet(acc) THEN acc
                                             ELSE Append(acc, d.family), <<>>, sorted)
        bare == SetToSeq(Mandatory \ ToSet(families))
        Set(f) == [family |-> f,
                   directives |-> SelectSeq(sorted, LAMBDA d : d.family = f)]
    IN  [i \in DOMAIN bare |-> [family |-> bare[i], directives |-> <<>>]]
        \o [i \in DOMAIN families |-> Set(families[i])]
=============================================================================
