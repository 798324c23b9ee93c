------------------------- MODULE MCStatusReporting -------------------------
(* Each register with the parts of the instrument its condition depends    *)
(* on, and what a measurement depends on without registers; masks that let *)
(* everything or nothing through; *SRE and *ESE values with every summary  *)
(* bit.                                                                    *)
EXTENDS Measurement

EachRegister ==
    {[registers |-> {"QUES"}, parts |-> {"signal", "byte"}],
     [registers |-> {"QUES", "QUES:VOLT"}, parts |-> {"voltage"}],
     [registers |-> {"QUES:CURR"}, parts |-> {"current"}],
     [registers |-> {"OPER"}, parts |-> {"sync", "acquisition", "sweep"}],
     [registers |-> {}, parts |-> {"signal", "acquisition", "voltage", "setup"}]}
OpenOrShut == {Bits, {}}
ByteValues == {{2, 3, 5}}
=============================================================================
