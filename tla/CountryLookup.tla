---------------------------- MODULE CountryLookup ----------------------------
(***************************************************************************)
(* The country of a callsign (enrichment/dxcc.py) and the call under which *)
(* its station is kept (extract_base_call of ft8/callsign.py).  A callsign *)
(* is the parts between its strokes; a part and a prefix are sequences of  *)
(* characters.  The table is what _parse_cty makes of cty.dat; the zones,  *)
(* continent and position of an entity, which come with it, are left out.  *)
(***************************************************************************)
EXTENDS Naturals, Sequences, FiniteSets, SequencesExt

CONSTANTS Digits,      \* the characters that are digits
          Portable,    \* PORTABLE_SUFFIXES
          MainParts,   \* the other parts of callsigns
          PrefixNames, \* prefixes of cty.dat
          MaxEntities  \* bound: entities of cty.dat

\* Parts and prefixes are strings, and no suffix that is a word has a digit.
PartsAssumption ==
    /\ \A p \in Portable \cup MainParts \cup PrefixNames : p \in Seq({p[i] : i \in DOMAIN p})
    /\ \A p \in Portable : \A i \in DOMAIN p : p[i] \notin Digits
    /\ MaxEntities \in Nat
ASSUME PartsAssumption

VARIABLES entities,  \* cty.dat: each entity's primary prefix and its tokens
          call,      \* parts of the callsign
          match      \* what lookup returns, <<>>: not yet

countryVars == <<entities, call, match>>

Tokened == [prefix : PrefixNames, exact : BOOLEAN]
Entity  == [primary : PrefixNames, tokens : {{}} \cup {{t} : t \in Tokened}]
NoMatch == [entity |-> 0, prefix |-> <<>>]

-----------------------------------------------------------------------------
\* _parse_cty: the tokens of an entity, and its primary prefix if it is not one of
\* them, with "=" or without.
Rules(n) ==
    LET e == entities[n]
    IN e.tokens \cup (IF \E t \in e.tokens : t.prefix = e.primary THEN {}
                      ELSE {[prefix |-> e.primary, exact |-> FALSE]})

Exact(part) == {n \in DOMAIN entities : [prefix |-> part, exact |-> TRUE] \in Rules(n)}

Matching(part) ==
    {r \in [entity : DOMAIN entities, prefix : PrefixNames] :
        /\ [prefix |-> r.prefix, exact |-> FALSE] \in Rules(r.entity)
        /\ IsPrefix(r.prefix, part)}

\* The longest prefix, and of the file's first entity that has it.
LongestRule(part) ==
    CHOOSE r \in Matching(part) : \A s \in Matching(part) :
        /\ Len(s.prefix) <= Len(r.prefix)
        /\ s.prefix = r.prefix => r.entity <= s.entity

HasDigit(part) == \E i \in DOMAIN part : part[i] \in Digits

\* _is_non_entity_suffix
NonEntity(part) == part \in Portable \/ ((\A i \in DOMAIN part : part[i] \in Digits) /\ Len(part) <= 2)

\* What callsigns begin with is not a suffix.
MainPartsAssumption == \A p \in MainParts : ~NonEntity(p)
ASSUME MainPartsAssumption

\* The parts without the suffixes that say nothing of a country
Stripped(parts) ==
    SubSeq(parts, 1, CHOOSE n \in DOMAIN parts :
        /\ n = 1 \/ ~NonEntity(parts[n])
        /\ \A i \in n + 1..Len(parts) : NonEntity(parts[i]))

\* (mutant) Two parts with digits stay as they are.
InOrderByDigit(a, b) == IF ~HasDigit(a) \/ HasDigit(b) THEN <<a, b>> ELSE <<b, a>>

\* Of two parts the one that is no whole call, for want of a digit or by its length
InOrder(a, b) ==
    IF HasDigit(a) # HasDigit(b) THEN IF HasDigit(b) THEN <<a, b>> ELSE <<b, a>>
    ELSE IF Len(a) <= Len(b) THEN <<a, b>> ELSE <<b, a>>

\* _dxcc_candidates (the third candidate, which repeats one of the two, left out)
Candidates(parts) ==
    IF Len(Stripped(parts)) = 1 THEN Stripped(parts) ELSE InOrder(parts[1], parts[2])

\* DxccLookup.lookup: an exact rule of any candidate, the file's last; then a prefix
Lookup(parts) ==
    LET candidate == Candidates(parts)
        exact == {i \in DOMAIN candidate : Exact(candidate[i]) # {}}
        plain == {i \in DOMAIN candidate : Matching(candidate[i]) # {}}
        First(s) == candidate[CHOOSE i \in s : \A j \in s : i <= j]
    IN IF exact # {}
       THEN [entity |-> CHOOSE n \in Exact(First(exact)) : \A o \in Exact(First(exact)) : o <= n,
             prefix |-> First(exact)]
       ELSE IF plain # {} THEN LongestRule(First(plain))
       ELSE NoMatch

\* The order in which extract_base_call sorts: with a digit before without, then by length
SortsBefore(p, q) ==
    \/ HasDigit(p) /\ ~HasDigit(q)
    \/ HasDigit(p) = HasDigit(q) /\ Len(p) > Len(q)

\* extract_base_call: the sort keeps equal parts in their order.
BaseCall(parts) ==
    parts[CHOOSE i \in DOMAIN parts : \A j \in DOMAIN parts :
        SortsBefore(parts[i], parts[j]) \/ (~SortsBefore(parts[j], parts[i]) /\ i <= j)]

-----------------------------------------------------------------------------
Endings == Portable \cup {<<d>> : d \in Digits}

CountryInit ==
    /\ \E n \in 1..MaxEntities : entities \in [1..n -> Entity]
    /\ \E main \in [1..1 -> MainParts] \cup [1..2 -> MainParts], n \in 0..2 :
          \E rest \in [1..n -> Endings] : call = main \o rest
    /\ match = <<>>

LookUpCall ==
    /\ match = <<>> /\ match' = <<Lookup(call)>>
    /\ UNCHANGED <<entities, call>>

CountryNext == LookUpCall

-----------------------------------------------------------------------------
\* A match names a rule that cty.dat has for its entity, and a rule with "=" is of a
\* whole part.
CountryTypeOK ==
    match # <<>> /\ match[1] # NoMatch =>
        /\ match[1].entity \in DOMAIN entities
        /\ \E exact \in BOOLEAN :
              /\ [prefix |-> match[1].prefix, exact |-> exact] \in Rules(match[1].entity)
              /\ exact => \E i \in DOMAIN call : call[i] = match[1].prefix

\* The rule that is used does not depend on the side of the stroke, nor on what is said
\* of power or district after it; two parts of one form and length are told apart by
\* nothing, and left out.
EitherSide ==
    match # <<>> =>
        LET main == Stripped(call)
        IN /\ match[1] = Lookup(main)
           /\ Len(main) = 2 /\ (Len(main[1]) # Len(main[2]) \/ HasDigit(main[1]) # HasDigit(main[2]))
                 => match[1] = Lookup(<<main[2], main[1]>>)

\* Of the rules for the part that decides none says more than the one that is used: an
\* island with a prefix of its own is not its motherland.
MostSpecific ==
    match # <<>> /\ match[1] # NoMatch =>
        \E part \in {Stripped(call)[i] : i \in DOMAIN Stripped(call)} :
            /\ IsPrefix(match[1].prefix, part)
            /\ Exact(part) = {} =>
                  \A n \in DOMAIN entities, t \in Tokened :
                      t \in Rules(n) /\ ~t.exact /\ IsPrefix(t.prefix, part) => Len(t.prefix) <= Len(match[1].prefix)

KnownPrefix(part) == \E n \in DOMAIN entities : [prefix |-> part, exact |-> FALSE] \in Rules(n)

\* PREFIX/CALL or CALL/PREFIX, with or without suffixes: a prefix of cty.dat, and a call
IsPortable(prefix, home) ==
    /\ Stripped(call) \in {<<prefix, home>>, <<home, prefix>>}
    /\ KnownPrefix(prefix) /\ HasDigit(home)

\* The code finds the prefix by its form, not in cty.dat: it has no digit, or is shorter.
ToldByForm(prefix, home) == ~HasDigit(prefix) \/ Len(prefix) < Len(home)

\* Where the form tells them apart, and no "=" rule is of the home call, the prefix gives
\* the country, by a rule of its own, and the station is kept under the home call: the
\* two readings of the call agree.  K1A/VP2E is not such a call (see PrefixUsed).
PrefixDecides ==
    match # <<>> =>
        \A prefix, home \in MainParts :
            IsPortable(prefix, home) /\ ToldByForm(prefix, home) /\ Exact(home) = {} =>
                match[1].prefix = prefix /\ BaseCall(call) = home

\* The country of a callsign is by the rule that says most, the same on either side of
\* the stroke, and that of the prefix wherever the form shows which part is the prefix.
CountryOfOperation == EitherSide /\ MostSpecific /\ PrefixDecides

\* What _dxcc_candidates says of itself: PREFIX/CALL uses PREFIX, and CALL/PREFIX does.
PrefixUsed ==
    match # <<>> =>
        \A prefix, home \in MainParts :
            IsPortable(prefix, home) /\ ~KnownPrefix(home) => match[1].prefix = prefix
=============================================================================
