------------------------------- MODULE Loader -------------------------------
(***************************************************************************)
(* local.Load (local/local.go) and the label map it fills while it walks a *)
(* checkout (deps.PathLabelMap): which import path each directory's        *)
(* package is recorded under.  A directory is the sequence of names that   *)
(* leads to it from the root of the checkout.  Hashes of source files and  *)
(* the classification of packages are left out.                            *)
(***************************************************************************)
EXTENDS Import, Storage

CONSTANTS
    NonPackages,   \* the names ".git", "vendor" and "testdata"
    Checkouts,     \* the checkouts explored: what each directory holds
    RepoPrefix,    \* Options.PackagePrefix, or the first remote without its scheme
    LoadOptions    \* the options explored

ASSUME LoaderAssumption ==
    /\ LoadOptions \subseteq [useImportComments : BOOLEAN, trimRepoPrefix : BOOLEAN]
    /\ HasDomain(RepoPrefix) /\ RepoPrefix \in Seq(Int)
    /\ \A checkout \in Checkouts : \A dir \in DOMAIN checkout :
           /\ dir \in Seq(Int) /\ \A n \in 0 .. Len(dir) : Upto(dir, n) \in DOMAIN checkout
           /\ checkout[dir] \in [module : Seq(Int), hasGo : BOOLEAN, comment : Seq(Int)]

VARIABLE loader

\* What a directory holds: the module of its go.mod, whether it has Go files,
\* and the import comment in them; NoPath for none.
Directory(module, hasGo, comment) == [module |-> module, hasGo |-> hasGo, comment |-> comment]

LoaderStart(checkout, opts) ==
    [checkout |-> checkout, opts |-> opts, step |-> "walk", todo |-> DOMAIN checkout,
     cmap |-> Empty, packages |-> << >>]

LoaderStarts == {LoaderStart(checkout, opts) : checkout \in Checkouts, opts \in LoadOptions}

LoaderInit == loader \in LoaderStarts

\* filepath.Walk: a directory before what is below it, names in their order.
WalksBefore(dir, other) ==
    \/ IsPrefix(dir, other)
    \/ \E i \in DOMAIN dir \cap DOMAIN other :
           Upto(dir, i - 1) = Upto(other, i - 1) /\ dir[i] < other[i]

IsNext(dir) == dir \in loader.todo /\ \A other \in loader.todo : WalksBefore(dir, other)

\* The root is the directory given to Load, whose own name is not a special one.
IsNonPackage(dir) == dir # NoPath /\ Last(dir) \in NonPackages

\* Mutant of FindLabel: only a label of the directory itself or of its parent.
FindLabelAbove(cmap, dir) ==
    LET above == {d \in DOMAIN cmap : IsPrefix(d, dir) /\ Len(d) + 1 >= Len(dir)} IN
    IF above = {} THEN NoPath
    ELSE LET nearest == CHOOSE d \in above : \A e \in above : Len(e) <= Len(d) IN
         cmap[nearest] \o Past(dir, Len(nearest))

\* PathLabelMap.Find: up from the directory to the nearest one with a label.
FindLabel(cmap, dir) ==
    LET above == {d \in DOMAIN cmap : IsPrefix(d, dir)} IN
    IF above = {} THEN NoPath
    ELSE LET nearest == CHOOSE d \in above : \A e \in above : Len(e) <= Len(d) IN
         cmap[nearest] \o Past(dir, Len(nearest))

TrimPrefix(opts, ip) ==
    IF opts.trimRepoPrefix /\ IsStrictPrefix(RepoPrefix, ip) THEN Past(ip, Len(RepoPrefix)) ELSE ip

\* The label map after the go.mod of a directory has been read.
WithModule(cmap, dir, holds) ==
    IF IsLocalPackage(holds.module) THEN cmap ELSE Put(cmap, dir, holds.module)

\* ... and after its import comment, which replaces the module.
WithComment(cmap, dir, holds) ==
    IF loader.opts.useImportComments /\ HasDomain(holds.comment)
    THEN Put(cmap, dir, holds.comment) ELSE cmap

\* The import path of a package: by its directory, or by the nearest label.
PathOf(cmap, dir) ==
    IF loader.opts.useImportComments /\ FindLabel(cmap, dir) # NoPath
    THEN FindLabel(cmap, dir) ELSE RepoPrefix \o dir

SkipsDir(dir) ==
    /\ loader.step = "walk" /\ IsNext(dir) /\ IsNonPackage(dir)
    /\ loader' = [loader EXCEPT !.todo = {d \in @ : ~IsPrefix(dir, d)}]

\* A directory without Go files has no package, yet its module counts.
VisitsDir(dir) ==
    /\ loader.step = "walk" /\ IsNext(dir) /\ ~IsNonPackage(dir)
    /\ LET holds == loader.checkout[dir]
           cmap1 == WithModule(loader.cmap, dir, holds)
           cmap2 == WithComment(cmap1, dir, holds)
           rec == [dir |-> dir, importPath |-> TrimPrefix(loader.opts, PathOf(cmap2, dir))]
       IN  loader' = IF holds.hasGo
           THEN [loader EXCEPT !.todo = @ \ {dir}, !.cmap = cmap2, !.packages = Append(@, rec)]
           ELSE [loader EXCEPT !.todo = @ \ {dir}, !.cmap = cmap1]

\* The remotes cannot be listed, a directory not be read, or the call is cancelled.
LoadFails ==
    /\ loader.step = "walk" /\ loader.todo # {}
    /\ loader' = [loader EXCEPT !.step = "failed"]

LoadEnds ==
    /\ loader.step = "walk" /\ loader.todo = {}
    /\ loader' = [loader EXCEPT !.step = "done"]

LoaderNext == \/ \E dir \in DOMAIN loader.checkout : SkipsDir(dir) \/ VisitsDir(dir)
              \/ LoadFails \/ LoadEnds

LoaderSpec == LoaderInit /\ [][LoaderNext]_loader
-----------------------------------------------------------------------------
\* What the checkout declares, read without a walk.
Entered(dir) == \A i \in DOMAIN dir : dir[i] \notin NonPackages
Declares(dir) ==
    LET holds == loader.checkout[dir] IN
    IF holds.hasGo /\ HasDomain(holds.comment) THEN holds.comment
    ELSE IF IsLocalPackage(holds.module) THEN NoPath ELSE holds.module

\* An enclosing directory names dir: it declares a path and none below it does.
NamedBy(dir, above) ==
    /\ IsPrefix(above, dir) /\ Declares(above) # NoPath
    /\ \A d \in DOMAIN loader.checkout :
           IsPrefix(d, dir) /\ Len(d) > Len(above) => Declares(d) = NoPath

\* The package of a directory has its path: with import comments in use, that
\* of the nearest directory around it that declares a module or a comment.
Named(rec) ==
    LET NamedAs(ip) == rec.importPath = TrimPrefix(loader.opts, ip)
        namers == {d \in DOMAIN loader.checkout : NamedBy(rec.dir, d)}
    IN  IF loader.opts.useImportComments /\ namers # {}
        THEN \A d \in namers : NamedAs(Declares(d) \o Past(rec.dir, Len(d)))
        ELSE NamedAs(RepoPrefix \o rec.dir)

\* Every directory with Go files is recorded once, those at and below special
\* directories never, and each under its path: the map of labels, filled during
\* the walk, has them in time (local.go:70-92, deps.go:96-127).
PackagesNamed ==
    loader.step = "done" =>
        LET recs == loader.packages
            dirs == {recs[i].dir : i \in DOMAIN recs}
        IN  /\ dirs = {d \in DOMAIN loader.checkout : Entered(d) /\ loader.checkout[d].hasGo}
            /\ Len(recs) = Cardinality(dirs)
            /\ \A i \in DOMAIN recs : Named(recs[i])
=============================================================================
