---------------------------- MODULE MCRoutedModels ----------------------------
(* Two threads of one process and two configured candidates: one serves  *)
(* text and tools, the other text and images.                            *)
EXTENDS RoutedModels

MCCandidate(priority, capabilities, modalities, quality) ==
    [ enabled |-> TRUE, capabilities |-> capabilities, roles |-> {"chat"}, modalities |-> modalities,
      formats |-> {}, window |-> 8, quality |-> quality, latency |-> 1, inputCost |-> 0, outputCost |-> 0,
      priority |-> priority, provider |-> "p", model |-> "m" ]

MCProfile ==
    1 :> MCCandidate(2, {"chat", "tools"}, {"text"}, 5) @@
    2 :> MCCandidate(1, {"chat", "vision"}, {"text", "image"}, 5)

\* What _request_for builds: no limit on cost, latency or quality, no preferred model.
MCRequest(capabilities, modalities, role) ==
    [ capabilities |-> capabilities, modalities |-> modalities, formats |-> {}, role |-> role,
      inputTokens |-> 1, maxOutput |-> 4, minQuality |-> 0, maxLatency |-> {}, maxCost |-> {},
      provider |-> "", model |-> "", preferred |-> <<>>, strict |-> FALSE, chatFallback |-> TRUE ]

MCRequests == { MCRequest({"chat"}, {"text"}, ""),
                MCRequest({"chat", "vision"}, {"text", "image"}, "vision_worker") }
================================================================================
