---------------------------- MODULE MCOneDriveKV ----------------------------
(* Small instances of OneDriveKV for TLC.                                  *)
EXTENDS OneDriveKV, TLC

\* A value of one byte and one of two, so that files differ in length.
TwoValues == {<<1>>, <<2, 2>>}

\* Nothing at first; or files that no client of this library wrote: a header cut
\* short, a value cut short, an empty value before another; or a good one.
NoFiles  == {NoFile}
AnyFiles == {NoFile, <<0, 0, 0>>, <<0, 0, 0, 2, 1>>,
             <<0, 0, 0, 0, 0, 0, 0, 1, 9>>, Entry(<<2, 2>>)}

ClientSymmetry == Permutations(Clients)
=============================================================================
