---------------------------- MODULE MC_AudioOutputs ----------------------------
(* A work directory with two sources, for TLC. *)
EXTENDS AudioOutputs

\* The second source has one audio stream only, no subtitles and no chapters.
Inventories == [A |-> {"pts", "video", "dub1", "dub2", "sub", "cover", "chap"},
                B |-> {"pts", "video", "dub1", "cover"}]
Two      == {"A", "B"}
Audio    == {"dub1", "dub2"}
Fonts    == {"cover"}
Whole    == [across |-> 0, down |-> 0]
Bars     == [across |-> 0, down |-> 3]
Borders  == [A |-> Bars, B |-> Whole]
Sizes    == [A |-> [width |-> 12, height |-> 9, sar |-> <<1, 1>>],
             B |-> [width |-> 9, height |-> 7, sar |-> <<4, 3>>]]
Margins  == {Whole, Bars}

\* Boxes with an odd edge, a cover that the grid pushes past the cropped picture
\* of B, and exact dimensions off the grid.
Inside   == [mode |-> "contain", width |-> 7, height |-> None]
Beyond   == [mode |-> "cover", width |-> 3, height |-> 3]
Exactly  == [mode |-> "exact", width |-> 15, height |-> 7]
Asked    == {None, Inside, Beyond, Exactly}
Formats  == [loud |-> "flac", quiet |-> "flac", lossy |-> "m4a"]

Base == [source |-> "A", path |-> "here", command |-> "process", filter |-> {"dub1", "dub2", "sub", "chap"},
         crop |-> None, scale |-> None, params |-> 1,
         chains |-> [day |-> "loud"], select |-> {"dub1", "dub2"}, force |-> FALSE]

Edits == {Base,
          [Base EXCEPT !.path = "there"],
          [Base EXCEPT !.source = "B"],
          [Base EXCEPT !.source = "B", !.force = TRUE],
          [Base EXCEPT !.source = "B", !.crop = Bars, !.scale = Beyond, !.force = TRUE],
          [Base EXCEPT !.crop = Whole, !.scale = Inside],
          [Base EXCEPT !.scale = Beyond],
          [Base EXCEPT !.params = 2, !.scale = Exactly],
          [Base EXCEPT !.chains = [day |-> "quiet"]],
          [Base EXCEPT !.chains = [day |-> "lossy", night |-> "quiet"], !.select = {"dub1"}],
          [Base EXCEPT !.command = "extract", !.filter = {"video", "dub2", "cover"}],
          [Base EXCEPT !.command = "video", !.force = TRUE],
          [Base EXCEPT !.command = "audio", !.source = "B", !.filter = {"dub1"}, !.force = TRUE]}
================================================================================
