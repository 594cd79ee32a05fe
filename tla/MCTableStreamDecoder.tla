------------------------- MODULE MCTableStreamDecoder -------------------------
(* Instances of TableStreamDecoder for TLC.                                  *)
EXTENDS TableStreamDecoder

M(k, b, p) == [kind |-> k, body |-> b, pad |-> p]

Plain == << M("schema", 0, 0), M("batch", 1, 0), M("dict", 1, 1),
            M("batch", 0, 0), M("batch", 2, 0), M("batch", 5, 1),
            M("batch", 2, 0), M("eos", 0, 0) >>

Flawed == << M("schema", 0, 0), M("batch", 1, 0), M("badbatch", 2, 1),
             M("other", 1, 0), M("batch", 2, 0), M("eos", 0, 0) >>

Headless == << M("batch", 1, 0), M("corrupt", 0, 0), M("eos", 0, 0) >>

MCStreams == {Plain, Flawed, Headless}

WithDictionary == { << M("schema", 0, 0), M("dict", 2, 1), M("batch", 1, 0),
                       M("eos", 0, 0) >> }

SameSize == { << M("schema", 0, 0), M("batch", 2, 0), M("batch", 2, 0),
                 M("eos", 0, 0) >> }
==============================================================================
