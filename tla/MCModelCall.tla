---------------------------- MODULE MCModelCall ----------------------------
(* Small instances of ModelCall for TLC. *)
EXTENDS ModelCall

Blank == [content |-> <<>>, reasoning |-> FALSE, tools |-> <<>>, finish |-> FALSE]
Says(text) == [Blank EXCEPT !.content = text]
Calls(tools) == [Blank EXCEPT !.tools = tools]
Part(index, id, type, name, args) ==
  [index |-> index, label |-> [id |-> id, type |-> type, name |-> name], args |-> args]
Args(index, args) == Part(index, "", "", "", args)
Ends(chunk) == [chunk EXCEPT !.finish = TRUE]

MCScripts ==
  {<<Says(<<h>>), Ends(Says(<<"end">>))>> : h \in DOMAIN Fields}
    \cup
  {\* a fenced verdict
   <<Says(<<"fence", "allow">>), Says(<<"end", "fence">>), Ends(Blank)>>,
   \* more than an object
   <<Says(<<"allow", "end">>), [Says(<<"deny">>) EXCEPT !.reasoning = TRUE], Ends(Says(<<"end">>))>>,
   \* two interleaved calls, the second one without arguments
   <<Calls(<<Part(2, "b", "function", "f", <<"{">>), Args(2, <<"}">>)>>),
     Ends(Calls(<<Part(1, "a", "function", "g", <<>>)>>))>>,
   \* arguments before the name, and a call that never gets one
   <<Calls(<<Args(1, <<"{">>)>>), Ends(Calls(<<Part(1, "", "", "f", <<"}">>), Args(2, <<"{">>)>>))>>,
   \* the ID in one chunk and the name in the next
   <<Calls(<<Part(1, "a", "function", "", <<>>)>>), Ends(Calls(<<Part(1, "", "", "f", <<>>)>>))>>,
   \* a name behind an ID in one chunk, once with a name from before it
   <<Calls(<<Part(1, "a", "", "", <<>>), Part(1, "", "", "f", <<"{", "}">>)>>), Ends(Blank)>>,
   <<Calls(<<Part(1, "a", "", "f", <<>>)>>),
     Ends(Calls(<<Part(1, "", "function", "", <<>>), Part(1, "b", "", "g", <<>>)>>))>>}
=============================================================================
