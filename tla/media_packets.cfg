SPECIFICATION PacketSpec
CONSTANTS
    Lens = {3, 4, 11, 12, 13, 19, 20, 22, 32, 52, 68}
    FirstBytes = {0, 1, 2, 3, 19, 20, 63, 64, 127, 128, 129, 144, 178, 191, 192}
    SecondBytes = {1, 17, 33, 191, 192, 200, 201, 202, 206, 223, 224}
    Lengths = {0, 1, 2, 4, 8, 20}
INVARIANTS ReadsInside OrderOfAttributes PayloadInside OwnPacketsParse
