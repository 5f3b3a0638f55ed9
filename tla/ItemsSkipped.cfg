\* Four items with two times and two ids; pages of one, of two and of three.
CONSTANTS
    Time = {1, 2}
    Id = {1, 2}
    DefaultPage = 2
    MaxPage = 3
    Asked = {0, 1, 4}
SPECIFICATION ListSpec
CHECK_DEADLOCK FALSE
INVARIANT ItemsComplete
