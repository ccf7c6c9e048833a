--------------------------- MODULE MCInvocations ---------------------------
(***************************************************************************)
(* One request goroutine, as goroutines share nothing they write; a skill  *)
(* s1 with two forms and, in the memory store, a second one of its name; a *)
(* schema found without regard to case; a model route with and without a   *)
(* usable fallback, and a second one with one model or none.               *)
(***************************************************************************)
EXTENDS Invocations

CONSTANTS good, bad

MCFold == [n \in {"ocr", "OCR"} |-> "ocr"]
MCSkillForms ==
    {[id |-> "s1", name |-> "ocr", version |-> "2"],
     [id |-> "s2", name |-> "ocr", version |-> "1"]}
MCSkillSeeds ==
    <<[id |-> "s1", name |-> "ocr", version |-> "1", status |-> "Published"]>>
MCSchemaForms ==
    {[id |-> "d1", name |-> "OCR", version |-> "1", accepts |-> {good, bad}],
     [id |-> "d2", name |-> "ocr", version |-> "1", accepts |-> {}]}
MCSchemaSeeds ==
    <<[id |-> "d1", name |-> "OCR", version |-> "1", accepts |-> {good}, status |-> "Published"],
      [id |-> "d2", name |-> "ocr", version |-> "2", accepts |-> {}, status |-> "Published"]>>

MCFoldModel == [m \in {"big", "BIG", "small", "fail", ""} |-> IF m = "BIG" THEN "big" ELSE m]
MCModelForms ==
    {[id |-> "m1", alias |-> "chat", primary |-> "big", fallback |-> "BIG"],
     [id |-> "m2", alias |-> "bare", primary |-> "", fallback |-> "fail"],
     [id |-> "m2", alias |-> "bare", primary |-> "", fallback |-> ""]}
MCModelSeeds ==
    <<[id |-> "m1", alias |-> "chat", primary |-> "fail", fallback |-> "small",
       status |-> "Active"]>>

MCRequests ==
    {[kind |-> "skill", name |-> "ocr", input |-> good],
     [kind |-> "skill", name |-> "ocr", input |-> bad],
     [kind |-> "llm", alias |-> "chat"],
     [kind |-> "llm", alias |-> "bare"],
     [kind |-> "stream", alias |-> "chat"]}
=============================================================================
