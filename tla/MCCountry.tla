------------------------------ MODULE MCCountry ------------------------------
(***************************************************************************)
(* CountryLookup for TLC, with a home call that is shorter than the prefix *)
(* of the place from which it is sent.                                     *)
(***************************************************************************)
EXTENDS CountryLookup

Spec == CountryInit /\ [][CountryNext]_countryVars

HomeAndIsland == {<<"K", "1", "A">>, <<"V", "P", "2", "E">>}
OfCty         == {<<"K">>, <<"V", "P", "2", "E">>}
AfterCall     == {<<"P">>}
=============================================================================
