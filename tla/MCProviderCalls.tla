-------------------------- MODULE MCProviderCalls --------------------------
(* One token per window and two attempts.                                  *)
EXTENDS ProviderCalls

MCLimit == [ocr |-> 1, llm |-> 1]

Deployment(llm, cloud, sensitive, limited) ==
    [llm |-> llm, allowCloud |-> cloud, allowSensitive |-> sensitive, limited |-> limited]

MCDeployments == {Deployment("openai", TRUE, TRUE, TRUE), Deployment("openai", FALSE, FALSE, FALSE)}

Request(kind, profile) == [kind |-> kind, profile |-> profile]

MCRequests == {Request("ocr", "azure"), Request("llm", "local"), Request("llm", "approval")}
=============================================================================
