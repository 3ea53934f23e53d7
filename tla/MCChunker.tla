------------------------------ MODULE MCChunker ------------------------------
(* Short documents of every shape, for model checking Chunker. *)
EXTENDS Chunker

Line(kind, level, title, sizes, gap, ends) ==
    [kind |-> kind, level |-> level, title |-> title, sizes |-> sizes,
     gap |-> gap, ends |-> ends]

const_Lines ==
    {Line("heading", 1, "a", <<>>, 0, FALSE),
     Line("heading", 3, "a", <<>>, 0, FALSE),
     Line("heading", 3, "b", <<>>, 0, FALSE),
     Line("row", 0, "", <<1>>, 1, FALSE),
     Line("row", 0, "", <<3>>, 0, FALSE),
     Line("separator", 0, "", <<1>>, 0, FALSE),
     Line("text", 0, "", <<1>>, 1, TRUE),
     Line("text", 0, "", <<2>>, 0, FALSE),
     Line("text", 0, "", <<3, 2>>, 0, TRUE),
     Line("blank", 0, "", <<>>, 0, FALSE)}
=============================================================================
