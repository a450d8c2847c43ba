-------------------------------- MODULE MCHacking --------------------------------
(* Two techs of one player and a marine of another who cannot hack; a          *)
(* computer and a door, far from each other or side by side.                  *)
EXTENDS Hacking

CONSTANTS crash, sarge, vegas, files, door

MCMarines == {crash, sarge, vegas}
MCTechs == {crash, vegas}
MCCommander == [x \in MCMarines |-> IF x = sarge THEN 2 ELSE 1]
MCComputers == {files}
MCPanels == {door}

\* All at one area, or one tech who walks between two.
Level1(e) == [x \in MCMarines |-> {{}, {e}}]
Walk(s) == [x \in MCMarines |-> IF x = crash THEN s ELSE {{}}]
Apart == {Level1(files), Level1(door), Walk({{files}, {door}})}
Together == {Walk({{}, {files, door}})}
===============================================================================
