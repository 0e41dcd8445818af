--------------------------- MODULE MCIndexMerge ---------------------------
(* Four keys, the third longer than a head entry holds; two-byte document  *)
(* IDs from 4 on; pages of one or two pairs; leaves of one or two terms; a *)
(* sidecar for two of the three directories (one the empty string); paths  *)
(* that are read back otherwise than they were given, once or in each pass.*)
EXTENDS IndexContents
MCTermLength  == <<1, 1, 9, 2>>
MCDocs        == [base |-> {1, 4}, delta |-> {6, 7}]
MCMaxPostings == [base |-> 2, delta |-> 2]
MCTfs         == [base |-> {1, 3}, delta |-> {1}]
\* '/x', 'a\/xxa', 'b\xL.', 'a/x': a slash 0, a backslash 1, a character of two bytes 5 4.
MCPathOf      == (1 :> <<0, 7>>) @@ (4 :> <<8, 1, 0, 7, 7, 8>>)
                 @@ (6 :> <<9, 1, 7, 5, 4>>) @@ (7 :> <<8, 0, 7>>)
MCIsUtf8(s)   == s = <<>> \/ Last(s) # 5
MCHashOrder   == <<7, 4, 1, 6>>
MCFlaggedTfs  == [base |-> {15}, delta |-> {1}]
============================================================================
