------------------------------ MODULE MCFiles ------------------------------
(***************************************************************************)
(* A few files of two chunks, two packages, and a build for each way of    *)
(* making files of files.                                                  *)
(***************************************************************************)
EXTENDS Files

S == <<"s">>          \* a source
T == <<"t">>          \* another
D == <<"out", "d">>   \* what is made of them
Old == <<"old">>      \* a file nobody edits
Shut == <<"shut">>    \* a directory of another user
Kept == <<"shut", "k">>
Pkg == <<"pkg">>
PkgS == <<"pkg", "s.class">>
Inner == <<"pkg", "i.class">>
PkgT == <<"pkg", "t.class">>

MCPaths == {S, T, D, <<"out">>, Old, Shut, Kept, <<"shut", "d">>, Pkg, PkgS, Inner, PkgT}
MCLocked == {Shut}
MCSources == {S, T}
Version0(f, time) == [EmptyFile(time) EXCEPT !.content = <<<<f, 0>>, <<f, 0>>>>]
MCInitially == S :> Version0(S, 1) @@ Old :> Version0(T, 0) @@ Shut :> Directory @@ Kept :> Version0(T, 0)

\* pkg/s.java makes two classes, pkg/t.java one of another name: none is
\* called t.class.
MCClassOf == S :> PkgS @@ T :> PkgT
MCTypes == S :> <<PkgS, Inner>> @@ T :> <<>>

To(files, d) == [f \in files |-> d]
Common(task, files, to) == [task |-> task, files |-> files, to |-> to, fileset |-> FALSE, tolerant |-> FALSE]
Copy(f, d) == Common("copy", <<f>>, To({f}, d)) @@ [overwrite |-> TRUE, preserve |-> FALSE]
Get(f, d) == Common("get", <<f>>, To({f}, d)) @@ [skipexisting |-> FALSE, usetimestamp |-> FALSE]
Escape(f, d) == Common("native2ascii", <<f>>, To({f}, d))
Move(f, d) == Common("move", <<f>>, To({f}, d)) @@ [failonerror |-> TRUE]
Touch(f, time) == Common("touch", <<f>>, <<>>) @@ [time |-> time, mkdirs |-> TRUE, failonerror |-> TRUE]
Delete(f, dir) == Common("delete", <<f>>, <<>>) @@ [dir |-> dir, failonerror |-> TRUE]
Mkdir(d) == Common("mkdir", <<d>>, <<>>)
Concat(files, d) ==
    Common("concat", files, To({files[i] : i \in DOMAIN files}, d))
    @@ [dest |-> d, append |-> FALSE, header |-> FALSE, eol |-> "", failonerror |-> TRUE]
Javac(files) == [Common("javac", files, <<>>) EXCEPT !.fileset = TRUE]
Jar(files, d, manifest, when) ==
    [Common("jar", files, <<>>) EXCEPT !.fileset = TRUE] @@ [dest |-> d, manifest |-> manifest, whenmanifestonly |-> when]
Apply(files, to, size) ==
    [Common("apply", files, to) EXCEPT !.fileset = TRUE] @@ [parallel |-> size > 0, maxparallel |-> size, failonerror |-> TRUE]

\* Made beside their sources.
Beside == S :> Pkg @@ T :> D @@ Old :> <<"out">>

MCBuilds ==
    [copy     |-> <<Copy(S, D)>>,
     keep     |-> <<[Copy(S, D) EXCEPT !.preserve = TRUE], Copy(S, <<"shut", "d">>)>>,
     get      |-> <<[Get(S, D) EXCEPT !.usetimestamp = TRUE]>>,
     once     |-> <<[Get(S, D) EXCEPT !.skipexisting = TRUE, !.tolerant = TRUE],
                    [Copy(S, D) EXCEPT !.overwrite = FALSE]>>,
     escape   |-> <<[Escape(S, D) EXCEPT !.tolerant = TRUE], Mkdir(<<"shut", "d">>)>>,
     move     |-> <<Move(Old, S), Mkdir(Kept)>>,
     moveout  |-> <<[Move(T, D) EXCEPT !.failonerror = FALSE], [Delete(Kept, FALSE) EXCEPT !.failonerror = FALSE],
                    Move(Kept, D)>>,
     touch    |-> <<Touch(D, 0), [Touch(T, 0) EXCEPT !.fileset = TRUE]>>,
     back     |-> <<Touch(S, 1), Touch(<<"shut", "d">>, 0)>>,
     clean    |-> <<Delete(<<"out">>, TRUE), Delete(Pkg, FALSE), Delete(Shut, FALSE)>>,
     cleanone |-> <<Delete(PkgS, FALSE), Delete(D, TRUE)>>,
     concat   |-> <<[Concat(<<S, T>>, D) EXCEPT !.header = TRUE, !.failonerror = FALSE]>>,
     concat2  |-> <<[Concat(<<S>>, D) EXCEPT !.eol = "crlf"], [Concat(<<S>>, D) EXCEPT !.eol = "unix"],
                    Concat(<<S>>, <<"shut", "d">>)>>,
     append   |-> <<[Concat(<<D>>, D) EXCEPT !.append = TRUE]>>,
     javac    |-> <<Javac(<<S, T>>)>>,
     jar      |-> <<Jar(<<T>>, D, FALSE, ""), Jar(<<S, T>>, D, TRUE, ""),
                    Jar(<<T>>, D, TRUE, "fail")>>,
     apply    |-> <<Apply(<<S, Old, T>>, Beside, 2), [Apply(<<T>>, Beside, 0) EXCEPT !.failonerror = FALSE]>>]

\* Whatever looks at classes goes with javac, whatever copies with the streams.
MCProjects ==
    {{"copy", "keep", "get", "once", "escape", "move", "touch", "clean", "back"},
     {"concat", "concat2", "append", "jar", "apply", "moveout"},
     {"javac", "jar", "touch", "back", "clean", "cleanone", "move"}}

\* The builds are such as the theorems of FilesProofs speak of.
ASSUME BuildsApart == Apart

=============================================================================
