-------------------------- MODULE MCOrganizations --------------------------
(* Organizations on a small database and with a few forms. *)
EXTENDS Organizations, TLC

CONSTANTS main, second, r1, r2

Filled(alias, requisites, default, upload) ==
  [alias |-> alias, requisites |-> requisites, is_default |-> default, upload |-> upload]

\* Either organisation may be made the default one, with or without a logo
\* and other requisites, and one may give its place up.
MixedForms ==
  {Filled(main, r1, TRUE, FALSE), Filled(second, r2, TRUE, TRUE), Filled(main, r1, FALSE, TRUE)}

\* One organisation whose requisites change.
ChangedForms == {Filled(main, r1, TRUE, FALSE), Filled(main, r2, TRUE, FALSE)}

Symmetry == Permutations(Sessions) \cup Permutations(Orgs)
=============================================================================
