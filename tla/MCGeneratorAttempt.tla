------------------------- MODULE MCGeneratorAttempt -------------------------
EXTENDS GeneratorAttempt

\* Every shape of generator the plugins have.
AllShapes == Shapes

\* The two shapes with the most of commands are followed for one process: what
\* the next finds of it is the results file, whose entries know no shape.
ShortOfCommands == plugin \in {"stream", "geekbench"} => launched = 1
=============================================================================
