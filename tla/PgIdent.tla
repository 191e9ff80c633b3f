------------------------------ MODULE PgIdent -------------------------------
(***************************************************************************)
(* SQL identifiers from MCP names (codegen/ident.rs).                      *)
(*                                                                         *)
(* A name is a sequence of symbols <<class, text>> of class lower, upper,  *)
(* digit or other; a symbol stands for a letter or for a word written in   *)
(* one case.  The SHA-256 suffix is free of collisions and two symbols     *)
(* long, so that the lengths compare as in the code: 63 = 55 + 1 + 7, and  *)
(* MAX_BYTES = TRUNCATE_BYTES + 1 + 2.                                     *)
(***************************************************************************)
EXTENDS Integers, Sequences, SequencesExt

CONSTANTS MAX_BYTES, TRUNCATE_BYTES

ASSUME LengthsAssumption == TRUNCATE_BYTES \in Nat /\ MAX_BYTES = TRUNCATE_BYTES + 3

US == <<"other", "_">>
DOT == <<"other", ".">>

Prefix(s, n) == SubSeq(s, 1, IF Len(s) < n THEN Len(s) ELSE n)

sha_suffix(name) == << <<"hash", name>>, <<"hash", name>> >>

\* aB, ABc and 1B are split before the B.
split_case_boundaries(name) ==
    LET Is(i, class) == i \in DOMAIN name /\ name[i][1] = class
        boundary(i) == \/ Is(i - 1, "lower") /\ Is(i, "upper")
                       \/ Is(i - 1, "upper") /\ Is(i, "upper") /\ Is(i + 1, "lower")
                       \/ Is(i - 1, "digit") /\ Is(i, "upper")
    IN FlattenSeq([i \in DOMAIN name |-> IF boundary(i) THEN <<US, name[i]>> ELSE <<name[i]>>])

lower(c) == IF c[1] = "upper" THEN <<"lower", c[2]>> ELSE c

\* Runs of other symbols collapse to one underscore, none at the start.
Collapse(symbols) ==
    LET push(out, c) ==
            CASE c[1] \in {"lower", "digit"} -> Append(out, c)
              [] c[1] = "other" /\ out # <<>> /\ Last(out) # US -> Append(out, US)
              [] OTHER -> out
    IN FoldLeft(push, <<>>, symbols)

TrimEnd(out) == IF out # <<>> /\ Last(out) = US THEN Front(out) ELSE out

GuardDigit(out) == IF out # <<>> /\ out[1][1] = "digit" THEN <<US>> \o out ELSE out

LowerAll(name) == [i \in DOMAIN name |-> lower(name[i])]

derive_base(name) == GuardDigit(TrimEnd(Collapse(LowerAll(split_case_boundaries(name)))))

Fit(composed) ==
    IF Len(composed) > MAX_BYTES
    THEN Prefix(composed, TRUNCATE_BYTES) \o <<US>> \o sha_suffix(composed)
    ELSE composed

derive(name, prefix) == Fit(prefix \o derive_base(name))

\* The n-th name tried for an original whose derived name sql is taken.
Candidate(original, sql, n) ==
    LET room == IF TRUNCATE_BYTES > 2 THEN TRUNCATE_BYTES - 2 ELSE 0
    IN IF n = 1 THEN Prefix(sql, TRUNCATE_BYTES) \o <<US>> \o sha_suffix(original)
       ELSE Prefix(sql, room) \o <<US>> \o sha_suffix(original) \o <<US, <<"digit", n>> >>

\* Mutant: the suffixed name is not looked up among the names taken.
DedupOnce(names, prefix) ==
    [i \in DOMAIN names |->
        LET sql == derive(names[i], prefix)
        IN IF \E j \in 1..(i - 1) : derive(names[j], prefix) = sql THEN Candidate(names[i], sql, 1) ELSE sql]

\* The first keeps its derived name; a later one takes the first free candidate.
Place(out, original, sql) ==
    LET free == {n \in 1..(Len(out) + 1) : ~Contains(out, Candidate(original, sql, n))}
    IN Append(out, IF ~Contains(out, sql) THEN sql
                   ELSE Candidate(original, sql, CHOOSE n \in free : \A k \in free : n <= k))

dedup(names, prefix) ==
    FoldLeft(LAMBDA out, original : Place(out, original, derive(original, prefix)), <<>>, names)

=============================================================================
