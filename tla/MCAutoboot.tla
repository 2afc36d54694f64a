------------------------------ MODULE MCAutoboot ------------------------------
(* No default eaddr: the kernel's table is then filled with and without    *)
(* one, which in the code takes a setenv -f eaddr on a full list.          *)
EXTENDS AutobootProps

MCChars == {"console", "OSLoadPartition", "OSLoadFilename", "eaddr", "kernname", "DEBUG",
            "g", "p", "u", "w", "mac", "own", "1", ";", " ", "/"}
MCDefaults ==
  << <<"console", <<"g">> >>, <<"OSLoadPartition", <<"p">> >>,
     <<"OSLoadFilename", <<"u">> >> >>

MCUserSets ==
  { <<"OSLoadFilename", <<"u", " ", ";", "w">>, 0>>, <<"DEBUG", <<"1">>, 0>>,
    <<"eaddr", <<"own">>, 1>> }
MCVariables == {"DEBUG"}
MCReadOnly == {"eaddr"}
==============================================================================
