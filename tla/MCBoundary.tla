----------------------------- MODULE MCBoundary -----------------------------
(***************************************************************************)
(* A module with two directories, two external ones and their rules.       *)
(***************************************************************************)
EXTENDS Boundary

Eon == <<"github.com", "eon">>
Hosts == {"github.com", "modernc.org"}
Domain == <<"internal", "domain">>
Sqlite == <<"modernc.org", "sqlite">>
Imports ==
  {<<"fmt">>, Eon \o Domain, Eon \o <<"internal", "domain", "sub">>,
   Eon \o <<"internal", "core">>, Sqlite, <<"modernc.org", "libc">>,
   <<"github.com", "other">>}
Keys == {{}, {Sqlite}, {<<"modernc.org">>}}

\* Lists of two kinds of entries in both orders, entries with and without the
\* module's path, one that contains the module, and one that nothing is under.
Allowlists ==
  {<<>>, <<Anything>>, <<StdLib, Domain>>, <<Eon \o Domain, Sqlite>>,
   <<Sqlite, Anything>>, <<Anything, Sqlite>>, <<StdLib, Eon>>,
   <<<<"github.com">>, <<"internal">>>>, <<<<"internal">>, <<"github.com">>>>}
Sizes == {2, 4}
Ceilings == {0, 3}
Packages == {"core", "storage"}
=============================================================================
