-------------------------- MODULE ZZm ---------------------------
(***************************************************************************)
(* A raster format and one whose driver is missing for defaults, a vector  *)
(* format, a mixed format and a JPEG of the user; the mixed format has the *)
(* mime type of the raster format.                                         *)
(***************************************************************************)
EXTENDS OutputFormats

MCDefaults == <<"png", "tiff">>

MCMime == [n \in {"png", "svg", "tiff", "mixed", "jpeg"} |->
              CASE n = "svg"  -> "image/svg+xml"
                [] n = "tiff" -> "image/tiff"
                [] n = "jpeg" -> "image/jpeg"
                [] OTHER      -> "image/png"]

Draw(layers, embed, transparent, opaque, end) ==
    [layers |-> layers, embed |-> embed, transparent |-> transparent,
     opaque |-> opaque, end |-> end]

MCDraws ==
    {
      Draw("renderer", TRUE,  MS_FALSE, TRUE,  "done"),
      Draw("masked",   TRUE,  MS_TRUE,  FALSE, "done"),
      Draw("masked",   FALSE, MS_FALSE, TRUE,  "mask"),
      Draw("plain",    TRUE,  MS_TRUE,  TRUE,  "legend") }

\* For what does not embed.
MCPlainDraws == {how \in MCDraws : ~how.embed}

MCFailingDraws == MCDraws \cup {Draw("plain", TRUE, MS_FALSE, TRUE, "memory")}

(***************************************************************************)
(* Where a format is in memory tells nobody anything.  Two states that     *)
(* differ only in the addresses of formats count as one: references are    *)
(* listed in a fixed order, with the place of the first reference to the   *)
(* same format for its address.                                            *)
(***************************************************************************)
MapRefs(m) == IF maps[m] = NULL THEN <<>> ELSE maps[m].list \o <<maps[m].cur, maps[m].mask>>

MapSeq == SetToSeq(Maps)
ImageSeq == SetToSeq(Images)
HandleSeq == SetToSeq(Handles)

AllRefs ==
    FlattenSeq([j \in DOMAIN MapSeq |-> MapRefs(MapSeq[j])])
    \o [j \in DOMAIN ImageSeq |-> images[ImageSeq[j]]]
    \o [j \in DOMAIN HandleSeq |-> handles[HandleSeq[j]]]

ApartFromAddresses ==
    LET refs == AllRefs
        first(f) == CHOOSE j \in DOMAIN refs : refs[j] = f /\ \A k \in 1 .. j - 1 : refs[k] # f
        held == Range(refs)
    IN  << [m \in Maps |-> IF maps[m] = NULL THEN NULL
                           ELSE <<Len(maps[m].list), maps[m].imagetype>>],
           [j \in DOMAIN refs |-> IF refs[j] = NULL THEN NULL ELSE first(refs[j])],
           [j \in DOMAIN refs |-> IF refs[j] = NULL THEN Freed ELSE heap[refs[j]]],
           {<<f, heap[f]>> : f \in {g \in Formats : heap[g].live /\ g \notin held}} >>
=============================================================================
