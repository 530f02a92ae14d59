---------------------------- MODULE MCTurboJPEG ----------------------------
(***************************************************************************)
(* Calls with files of every kind, with the flags that change how a call   *)
(* ends, and with failures at the beginning and in the middle.             *)
(***************************************************************************)
EXTENDS TurboJPEG, TLC

File(header, warns, sampling, scans) ==
    [header |-> header, warns |-> warns, sampling |-> sampling, scans |-> scans,
     markers |-> TRUE]
MCFiles == {File("good", "no", TRUE, "few"), File("good", "no", TRUE, "many"),
          File("good", "no", FALSE, "few"), File("good", "header", TRUE, "few"),
          File("good", "scan", TRUE, "few"), File("damaged", "no", TRUE, "few"),
          File("noSOI", "no", TRUE, "few"), File("tables", "no", TRUE, "few")}

What(name, file_, flags_, fails, size, t) ==
    [name |-> name, file |-> file_, flags |-> flags_, fails |-> fails, size |-> size, t |-> t]
Fails == {"no", "start", "rows"}
Plain == [copynone |-> FALSE, nooutput |-> FALSE]
Bare == [copynone |-> TRUE, nooutput |-> FALSE]
Filter == [copynone |-> TRUE, nooutput |-> TRUE]

Headers == {What("tjDecompressHeader3", f, {}, "no", 0, <<>>) : f \in MCFiles}
Readers == {"tjDecompress2", "tjDecompressToYUVPlanes", "tjDecompressToYUV2"}
Readings == {What(n, f, {}, "no", 0, <<>>) : n \in Readers, f \in MCFiles}
            \cup {What(n, f, g, "no", 0, <<>>)
                : n \in Readers, g \in {{"STOPONWARNING"}, {"LIMITSCANS"}},
                  f \in {e \in MCFiles : e.warns # "no" \/ e.scans = "many"}}
            \cup {What(n, File("good", "no", TRUE, "few"), {"STOPONWARNING"}, x, 0, <<>>)
                : n \in Readers, x \in {"start", "rows"}}
Transforms == {What("tjTransform", f, g, "no", 1, <<Bare, Filter, Plain>>)
                  : f \in MCFiles, g \in {{}, {"LIMITSCANS", "STOPONWARNING"}}}
              \cup {What("tjTransform", File("good", "no", TRUE, "few"), {}, x, 1, <<Plain>>)
                       : x \in Fails}
Compressions == {What("tjCompress2", NoFile, {}, x, s, <<>>) : x \in Fails, s \in {1, 3}}
                \cup {What("tjCompress2", NoFile, {"NOREALLOC"}, x, 3, <<>>) : x \in Fails}
                \cup {What("tjCompressFromYUVPlanes", NoFile, {}, "no", 3, <<>>)}
Planes == {What(n, NoFile, {}, x, 0, <<>>)
              : n \in {"tjEncodeYUVPlanes", "tjDecodeYUVPlanes"}, x \in Fails}

MCCalls == Headers \cup Readings \cup Transforms \cup Compressions \cup Planes

\* One call with a result that is to have no markers, and one that is.
MarkerCalls == {What("tjTransform", File("good", "no", TRUE, "few"), {}, "no", 1, t)
                   : t \in {<<Bare>>, <<Plain>>}}

\* Addresses are alike.
Alike == Permutations(Addresses)
=============================================================================
