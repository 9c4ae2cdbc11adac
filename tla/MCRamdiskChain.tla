--------------------------- MODULE MCRamdiskChain ---------------------------
(***************************************************************************)
(* RamdiskChain over the trees of MCTrees and archives made elsewhere.     *)
(***************************************************************************)
EXTENDS RamdiskChain, MCTrees

File(name, ns, fs, strays) == Item(name, "reg", FALSE, ns, fs, strays, 0)
DevDir(slash, gap) == Item(<<"dev">>, "dir", slash, IF slash THEN 5 ELSE 4, 0, {}, gap)

(* A file that holds the header of a dev of its own, at every place of its  *)
(* data, then dev, with and without padding that the format does not ask    *)
(* for, then one more file.                                                 *)
NestedDev == [name |-> <<"dev">>, kind |-> "dir", slash |-> FALSE, ns |-> 4, fs |-> 0]
Before == {LayoutWith(<<File(<<"f">>, ns, fs, {PackedData(ns) + k}), DevDir(slash, gap),
                    File(<<"z">>, 2, 5, {})>>, NestedDev) :
             ns \in 4..7, fs \in 9..12, k \in 0..3, slash \in BOOLEAN, gap \in {0, 8}}

(* dev at the start, at the end, absent, and a name that only ends in dev. *)
Others == {Layout(<<DevDir(TRUE, 0), File(<<"a">>, 2, 3, {})>>),
           Layout(<<File(<<"x", "dev">>, 6, 7, {}), DevDir(FALSE, 0)>>),
           Layout(<<File(<<"x", "dev">>, 6, 7, {}), File(<<"y">>, 2, 0, {})>>),
           Layout(<<>>)}

AllSources == Before \cup Others
=============================================================================
