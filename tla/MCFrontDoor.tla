------------------------------ MODULE MCFrontDoor ------------------------------
(* Three callers, one of them on the engine's machine, over requests of every    *)
(* kind either side tells apart.                                                 *)
EXTENDS FrontDoor

CONSTANTS c1, c2, c3

Small == [size |-> "small", json |-> TRUE, presets |-> FALSE, candidates |-> NoArray,
          nulls |-> FALSE, text |-> TRUE, lines |-> 1, badLine |-> FALSE, greedy |-> FALSE]
Bodies == {Small,
           [Small EXCEPT !.lines = MaxCandidates + 1],
           [Small EXCEPT !.lines = MaxCandidates + 1, !.text = FALSE],
           [Small EXCEPT !.lines = 0, !.candidates = MaxCandidates],
           [Small EXCEPT !.lines = 0, !.presets = TRUE, !.greedy = TRUE],
           [Small EXCEPT !.badLine = TRUE],
           [Small EXCEPT !.size = "huge", !.json = FALSE]}

Post(p, b) == [method |-> "POST", path |-> p, body |-> b]
Get(p) == [method |-> "GET", path |-> p, body |-> [Small EXCEPT !.lines = 0]]
Options == [method |-> "OPTIONS", path |-> "/v1/assess", body |-> Small]

\* The second caller repeats what the first may have asked.
MCAsks ==
  [c \in Caller |->
     IF c = c1 THEN {Post("/v1/assess", b) : b \in Bodies}
                      \cup {Post("/v1/play", Small), Post("/v1/status", Small), Get("/other"),
                             Get("/healthz"), Options}
     ELSE IF c = c2 THEN {Post("/v1/assess", Small), Post("/v1/probe", Small), Get("/v1/status")}
     ELSE {Post("/v1/play", Small),
           Post("/v1/play", [Small EXCEPT !.lines = 0, !.candidates = 1, !.nulls = TRUE]),
           Post("/v1/assess", [Small EXCEPT !.size = "huge", !.json = FALSE])}]
=============================================================================
