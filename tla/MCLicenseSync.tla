---------------------------- MODULE MCLicenseSync ----------------------------
(* Small instances of LicenseSync.                                         *)
EXTENDS LicenseSync, TLC

\* Ids package 0 does not hold are interchangeable.
Symmetry == Permutations(Depots \ Native)
=============================================================================
