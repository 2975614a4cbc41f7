------------------------------ MODULE RrcSibs ------------------------------
(***************************************************************************)
(* The system information blocks of 36.331 section 6.3.1.                  *)
(* One layout per function, named without the prefix liblte_rrc_.  Numbers *)
(* in Is, Arm and Enum are values and sizes of enumerations of liblte_rrc.h. *)
(***************************************************************************)
EXTENDS RrcMeasIes

pack_sys_info_block_type_2_ie ==
  <<Fill(0, 1), Fld("ac_barring_info_present", 1),
    Case(Some("mbsfn_subfr_cnfg_list_size"), <<Fill(1, 1), Put("mbsfn_subfr_cnfg_list_opt", 1)>>,
      <<Fill(0, 1), Put("mbsfn_subfr_cnfg_list_opt", 0)>>),
    When(On("ac_barring_info_present"),
      <<Flags(<<"ac_barring_for_mo_signalling.enabled", "ac_barring_for_mo_data.enabled",
          "ac_barring_for_emergency">>),
        When(On("ac_barring_for_mo_signalling.enabled"),
          <<Fld("ac_barring_for_mo_signalling.factor", 4),
            Fld("ac_barring_for_mo_signalling.time", 3),
            Fld("ac_barring_for_mo_signalling.for_special_ac", 5)>>),
        When(On("ac_barring_for_mo_data.enabled"),
          <<Fld("ac_barring_for_mo_data.factor", 4), Fld("ac_barring_for_mo_data.time", 3),
            Fld("ac_barring_for_mo_data.for_special_ac", 5)>>)>>),
    Sub("rr_config_common_sib", pack_rr_config_common_sib_ie),
    Sub("ue_timers_and_constants", pack_ue_timers_and_constants_ie),
    Flags(<<"arfcn_value_eutra.present", "ul_bw.present">>),
    When(On("arfcn_value_eutra.present"),
      <<Sub("arfcn_value_eutra.value", pack_arfcn_value_eutra_ie)>>),
    When(On("ul_bw.present"), <<Enum("ul_bw.bw", 3, 6)>>),
    Sub("additional_spectrum_emission", pack_additional_spectrum_emission_ie),
    When(On("mbsfn_subfr_cnfg_list_opt"),
      <<Cnt("mbsfn_subfr_cnfg_list_size", 3, -1),
        Each("mbsfn_subfr_cnfg_list_size", "mbsfn_subfr_cnfg",
          <<Sub("", pack_mbsfn_subframe_config_ie)>>)>>),
    Sub("time_alignment_timer", pack_time_alignment_timer_ie)>>

unpack_sys_info_block_type_2_ie ==
  <<Flags(<<"ext_ind", "ac_barring_info_present", "mbsfn_subfr_cnfg_list_opt">>),
    Case(On("ac_barring_info_present"),
      <<Flags(<<"ac_barring_for_mo_signalling.enabled", "ac_barring_for_mo_data.enabled",
          "ac_barring_for_emergency">>),
        When(On("ac_barring_for_mo_signalling.enabled"),
          <<Fld("ac_barring_for_mo_signalling.factor", 4),
            Fld("ac_barring_for_mo_signalling.time", 3),
            Fld("ac_barring_for_mo_signalling.for_special_ac", 5)>>),
        When(On("ac_barring_for_mo_data.enabled"),
          <<Fld("ac_barring_for_mo_data.factor", 4), Fld("ac_barring_for_mo_data.time", 3),
            Fld("ac_barring_for_mo_data.for_special_ac", 5)>>)>>,
      <<Put("ac_barring_for_emergency", 0), Put("ac_barring_for_mo_signalling.enabled", 0),
        Put("ac_barring_for_mo_data.enabled", 0)>>),
    Sub("rr_config_common_sib", unpack_rr_config_common_sib_ie),
    Sub("ue_timers_and_constants", unpack_ue_timers_and_constants_ie),
    Flags(<<"arfcn_value_eutra.present", "ul_bw.present">>),
    When(On("arfcn_value_eutra.present"),
      <<Sub("arfcn_value_eutra.value", unpack_arfcn_value_eutra_ie)>>),
    When(On("ul_bw.present"), <<Enum("ul_bw.bw", 3, 6)>>),
    Sub("additional_spectrum_emission", unpack_additional_spectrum_emission_ie),
    Case(On("mbsfn_subfr_cnfg_list_opt"),
      <<Cnt("mbsfn_subfr_cnfg_list_size", 3, -1),
        Each("mbsfn_subfr_cnfg_list_size", "mbsfn_subfr_cnfg",
          <<Sub("", unpack_mbsfn_subframe_config_ie)>>)>>, <<Put("mbsfn_subfr_cnfg_list_size", 0)>>),
    Sub("time_alignment_timer", unpack_time_alignment_timer_ie), Ext("ext_ind")>>

pack_sys_info_block_type_3_ie ==
  <<Fill(0, 1), Fld("speed_state_resel_params.present", 1), Fld("q_hyst", 4),
    When(On("speed_state_resel_params.present"),
      <<Sub("speed_state_resel_params.mobility_state_params", pack_mobility_state_parameters_ie),
        Fld("speed_state_resel_params.q_hyst_sf.medium", 2),
        Fld("speed_state_resel_params.q_hyst_sf.high", 2)>>),
    Fld("s_non_intra_search_present", 1),
    When(On("s_non_intra_search_present"),
      <<Sub("s_non_intra_search", pack_reselection_threshold_ie)>>),
    Sub("thresh_serving_low", pack_reselection_threshold_ie),
    Sub("cell_resel_prio", pack_cell_reselection_priority_ie),
    Flags(<<"p_max_present", "s_intra_search_present", "allowed_meas_bw_present",
      "t_resel_eutra_sf_present">>),
    Sub("q_rx_lev_min", pack_q_rx_lev_min_ie),
    When(On("p_max_present"), <<Sub("p_max", pack_p_max_ie)>>),
    When(On("s_intra_search_present"), <<Sub("s_intra_search", pack_reselection_threshold_ie)>>),
    When(On("allowed_meas_bw_present"), <<Sub("allowed_meas_bw", pack_allowed_meas_bandwidth_ie)>>),
    Sub("presence_ant_port_1", pack_presence_antenna_port_1_ie),
    Sub("neigh_cell_cnfg", pack_neigh_cell_config_ie), Sub("t_resel_eutra", pack_t_reselection_ie),
    When(On("t_resel_eutra_sf_present"),
      <<Sub("t_resel_eutra_sf", pack_speed_state_scale_factors_ie)>>)>>

unpack_sys_info_block_type_3_ie ==
  <<Flags(<<"ext_ind", "speed_state_resel_params.present">>), Fld("q_hyst", 4),
    When(On("speed_state_resel_params.present"),
      <<Sub("speed_state_resel_params.mobility_state_params", unpack_mobility_state_parameters_ie),
        Fld("speed_state_resel_params.q_hyst_sf.medium", 2),
        Fld("speed_state_resel_params.q_hyst_sf.high", 2)>>),
    Fld("s_non_intra_search_present", 1),
    When(On("s_non_intra_search_present"),
      <<Sub("s_non_intra_search", unpack_reselection_threshold_ie)>>),
    Sub("thresh_serving_low", unpack_reselection_threshold_ie),
    Sub("cell_resel_prio", unpack_cell_reselection_priority_ie),
    Flags(<<"p_max_present", "s_intra_search_present", "allowed_meas_bw_present",
      "t_resel_eutra_sf_present">>),
    Sub("q_rx_lev_min", unpack_q_rx_lev_min_ie),
    When(On("p_max_present"), <<Sub("p_max", unpack_p_max_ie)>>),
    When(On("s_intra_search_present"), <<Sub("s_intra_search", unpack_reselection_threshold_ie)>>),
    When(On("allowed_meas_bw_present"),
      <<Sub("allowed_meas_bw", unpack_allowed_meas_bandwidth_ie)>>),
    Sub("presence_ant_port_1", unpack_presence_antenna_port_1_ie),
    Sub("neigh_cell_cnfg", unpack_neigh_cell_config_ie),
    Sub("t_resel_eutra", unpack_t_reselection_ie),
    When(On("t_resel_eutra_sf_present"),
      <<Sub("t_resel_eutra_sf", unpack_speed_state_scale_factors_ie)>>),
    Ext("ext_ind")>>

pack_sys_info_block_type_4_ie ==
  <<Fill(0, 1), Opt(Some("intra_freq_neigh_cell_list_size")),
    Opt(Some("intra_freq_black_cell_list_size")), Fld("csg_phys_cell_id_range_present", 1),
    When(On("intra_freq_neigh_cell_list_size"),
      <<Cnt("intra_freq_neigh_cell_list_size", 4, -1),
        Each("intra_freq_neigh_cell_list_size", "intra_freq_neigh_cell_list",
          <<Fill(0, 1), Sub("phys_cell_id", pack_phys_cell_id_ie),
            Sub("q_offset_range", pack_q_offset_range_ie)>>)>>),
    When(On("intra_freq_black_cell_list_size"),
      <<Cnt("intra_freq_black_cell_list_size", 4, -1),
        Each("intra_freq_black_cell_list_size", "intra_freq_black_cell_list",
          <<Sub("", pack_phys_cell_id_range_ie)>>)>>),
    When(On("csg_phys_cell_id_range_present"),
      <<Sub("csg_phys_cell_id_range", pack_phys_cell_id_range_ie)>>)>>

unpack_sys_info_block_type_4_ie ==
  <<Flags(<<"ext_ind", "intra_freq_neigh_cell_list_opt", "intra_freq_black_cell_list_opt",
      "csg_phys_cell_id_range_present">>),
    Case(On("intra_freq_neigh_cell_list_opt"),
      <<Cnt("intra_freq_neigh_cell_list_size", 4, -1),
        Each("intra_freq_neigh_cell_list_size", "intra_freq_neigh_cell_list",
          <<Skip(1), Sub("phys_cell_id", unpack_phys_cell_id_ie),
            Sub("q_offset_range", unpack_q_offset_range_ie)>>)>>,
      <<Put("intra_freq_neigh_cell_list_size", 0)>>),
    Case(On("intra_freq_black_cell_list_opt"),
      <<Cnt("intra_freq_black_cell_list_size", 4, -1),
        Each("intra_freq_black_cell_list_size", "intra_freq_black_cell_list",
          <<Sub("", unpack_phys_cell_id_range_ie)>>)>>,
      <<Put("intra_freq_black_cell_list_size", 0)>>),
    When(On("csg_phys_cell_id_range_present"),
      <<Sub("csg_phys_cell_id_range", unpack_phys_cell_id_range_ie)>>),
    Ext("ext_ind")>>

pack_sys_info_block_type_5_ie ==
  <<Fill(0, 1), Cnt("inter_freq_carrier_freq_list_size", 3, -1),
    Each("inter_freq_carrier_freq_list_size", "inter_freq_carrier_freq_list",
      <<Fill(0, 1),
        Flags(<<"p_max_present", "t_resel_eutra_sf_present", "cell_resel_prio_present">>),
        Opt(Some("inter_freq_neigh_cell_list_size")), Opt(Some("inter_freq_black_cell_list_size")),
        Sub("dl_carrier_freq", pack_arfcn_value_eutra_ie),
        Sub("q_rx_lev_min", pack_q_rx_lev_min_ie),
        When(On("p_max_present"), <<Sub("p_max", pack_p_max_ie)>>),
        Sub("t_resel_eutra", pack_t_reselection_ie),
        When(On("t_resel_eutra_sf_present"),
          <<Sub("t_resel_eutra_sf", pack_speed_state_scale_factors_ie)>>),
        Sub("threshx_high", pack_reselection_threshold_ie),
        Sub("threshx_low", pack_reselection_threshold_ie),
        Sub("allowed_meas_bw", pack_allowed_meas_bandwidth_ie),
        Sub("presence_ant_port_1", pack_presence_antenna_port_1_ie),
        When(On("cell_resel_prio_present"),
          <<Sub("cell_resel_prio", pack_cell_reselection_priority_ie)>>),
        Sub("neigh_cell_cnfg", pack_neigh_cell_config_ie),
        Sub("q_offset_freq", pack_q_offset_range_ie),
        When(On("inter_freq_neigh_cell_list_size"),
          <<Cnt("inter_freq_neigh_cell_list_size", 4, -1),
            Each("inter_freq_neigh_cell_list_size", "inter_freq_neigh_cell_list",
              <<Sub("phys_cell_id", pack_phys_cell_id_ie),
                Sub("q_offset_cell", pack_q_offset_range_ie)>>)>>),
        When(On("inter_freq_black_cell_list_size"),
          <<Cnt("inter_freq_black_cell_list_size", 4, -1),
            Each("inter_freq_black_cell_list_size", "inter_freq_black_cell_list",
              <<Sub("", pack_phys_cell_id_range_ie)>>)>>)>>)>>

unpack_sys_info_block_type_5_ie ==
  <<Fld("ext_ind", 1), Cnt("inter_freq_carrier_freq_list_size", 3, -1),
    Each("inter_freq_carrier_freq_list_size", "inter_freq_carrier_freq_list",
      <<Flags(<<"inter_freq_carrier_freq_list_ext_ind", "p_max_present",
          "t_resel_eutra_sf_present", "cell_resel_prio_present", "q_offset_freq_opt",
          "inter_freq_neigh_cell_list_opt", "inter_freq_black_cell_list_opt">>),
        Sub("dl_carrier_freq", unpack_arfcn_value_eutra_ie),
        Sub("q_rx_lev_min", unpack_q_rx_lev_min_ie),
        When(On("p_max_present"), <<Sub("p_max", unpack_p_max_ie)>>),
        Sub("t_resel_eutra", unpack_t_reselection_ie),
        When(On("t_resel_eutra_sf_present"),
          <<Sub("t_resel_eutra_sf", unpack_speed_state_scale_factors_ie)>>),
        Sub("threshx_high", unpack_reselection_threshold_ie),
        Sub("threshx_low", unpack_reselection_threshold_ie),
        Sub("allowed_meas_bw", unpack_allowed_meas_bandwidth_ie),
        Sub("presence_ant_port_1", unpack_presence_antenna_port_1_ie),
        When(On("cell_resel_prio_present"),
          <<Sub("cell_resel_prio", unpack_cell_reselection_priority_ie)>>),
        Sub("neigh_cell_cnfg", unpack_neigh_cell_config_ie),
        Case(On("q_offset_freq_opt"), <<Sub("q_offset_freq", unpack_q_offset_range_ie)>>,
          <<Put("q_offset_freq", 15)>>),
        Case(On("inter_freq_neigh_cell_list_opt"),
          <<Cnt("inter_freq_neigh_cell_list_size", 4, -1),
            Each("inter_freq_neigh_cell_list_size", "inter_freq_neigh_cell_list",
              <<Sub("phys_cell_id", unpack_phys_cell_id_ie),
                Sub("q_offset_cell", unpack_q_offset_range_ie)>>)>>,
          <<Put("inter_freq_neigh_cell_list_size", 0)>>),
        Case(On("inter_freq_black_cell_list_opt"),
          <<Cnt("inter_freq_black_cell_list_size", 4, -1),
            Each("inter_freq_black_cell_list_size", "inter_freq_black_cell_list",
              <<Sub("", unpack_phys_cell_id_range_ie)>>)>>,
          <<Put("inter_freq_black_cell_list_size", 0)>>)>>),
    Ext("ext_ind")>>

pack_sys_info_block_type_6_ie ==
  <<Fill(0, 1), Opt(Some("carrier_freq_list_utra_fdd_size")),
    Opt(Some("carrier_freq_list_utra_tdd_size")), Fld("t_resel_utra_sf_present", 1),
    When(On("carrier_freq_list_utra_fdd_size"),
      <<Cnt("carrier_freq_list_utra_fdd_size", 4, -1),
        Each("carrier_freq_list_utra_fdd_size", "carrier_freq_list_utra_fdd",
          <<Fill(0, 1), Fld("cell_resel_prio_present", 1),
            Sub("carrier_freq", pack_arfcn_value_utra_ie),
            When(On("cell_resel_prio_present"),
              <<Sub("cell_resel_prio", pack_cell_reselection_priority_ie)>>),
            Sub("threshx_high", pack_reselection_threshold_ie),
            Sub("threshx_low", pack_reselection_threshold_ie), Scl("q_rx_lev_min", 6, -1, 2, 60),
            Bias("p_max_utra", 7, 50), Bias("q_qual_min", 5, 24)>>)>>),
    When(On("carrier_freq_list_utra_tdd_size"),
      <<Cnt("carrier_freq_list_utra_tdd_size", 4, -1),
        Each("carrier_freq_list_utra_tdd_size", "carrier_freq_list_utra_tdd",
          <<Fill(0, 1), Fld("cell_resel_prio_present", 1),
            Sub("carrier_freq", pack_arfcn_value_utra_ie),
            When(On("cell_resel_prio_present"),
              <<Sub("cell_resel_prio", pack_cell_reselection_priority_ie)>>),
            Sub("threshx_high", pack_reselection_threshold_ie),
            Sub("threshx_low", pack_reselection_threshold_ie), Scl("q_rx_lev_min", 6, -1, 2, 60),
            Bias("p_max_utra", 7, 50)>>)>>),
    Sub("t_resel_utra", pack_t_reselection_ie),
    When(On("t_resel_utra_sf_present"),
      <<Sub("t_resel_utra_sf", pack_speed_state_scale_factors_ie)>>)>>

unpack_sys_info_block_type_6_ie ==
  <<Flags(<<"ext_ind", "carrier_freq_list_utra_fdd_opt", "carrier_freq_list_utra_tdd_opt",
      "t_resel_utra_sf_present">>),
    Case(On("carrier_freq_list_utra_fdd_opt"),
      <<Cnt("carrier_freq_list_utra_fdd_size", 4, -1),
        Each("carrier_freq_list_utra_fdd_size", "carrier_freq_list_utra_fdd",
          <<Flags(<<"carrier_freq_list_utra_fdd_ext_ind", "cell_resel_prio_present">>),
            Sub("carrier_freq", unpack_arfcn_value_utra_ie),
            When(On("cell_resel_prio_present"),
              <<Sub("cell_resel_prio", unpack_cell_reselection_priority_ie)>>),
            Sub("threshx_high", unpack_reselection_threshold_ie),
            Sub("threshx_low", unpack_reselection_threshold_ie), Scl("q_rx_lev_min", 6, -1, 2, 60),
            Bias("p_max_utra", 7, 50), Bias("q_qual_min", 5, 24)>>)>>,
      <<Put("carrier_freq_list_utra_fdd_size", 0)>>),
    Case(On("carrier_freq_list_utra_tdd_opt"),
      <<Cnt("carrier_freq_list_utra_tdd_size", 4, -1),
        Each("carrier_freq_list_utra_tdd_size", "carrier_freq_list_utra_tdd",
          <<Flags(<<"carrier_freq_list_utra_tdd_ext_ind", "cell_resel_prio_present">>),
            Sub("carrier_freq", unpack_arfcn_value_utra_ie),
            When(On("cell_resel_prio_present"),
              <<Sub("cell_resel_prio", unpack_cell_reselection_priority_ie)>>),
            Sub("threshx_high", unpack_reselection_threshold_ie),
            Sub("threshx_low", unpack_reselection_threshold_ie), Scl("q_rx_lev_min", 6, 59, 2, 0),
            Bias("p_max_utra", 7, 50)>>)>>, <<Put("carrier_freq_list_utra_tdd_size", 0)>>),
    Sub("t_resel_utra", unpack_t_reselection_ie),
    When(On("t_resel_utra_sf_present"),
      <<Sub("t_resel_utra_sf", unpack_speed_state_scale_factors_ie)>>),
    Ext("ext_ind")>>

pack_sys_info_block_type_7_ie ==
  <<Fill(0, 1), Fld("t_resel_geran_sf_present", 1), Opt(Some("carrier_freqs_info_list_size")),
    Sub("t_resel_geran", pack_t_reselection_ie),
    When(On("t_resel_geran_sf_present"),
      <<Sub("t_resel_geran_sf", pack_speed_state_scale_factors_ie)>>),
    When(On("carrier_freqs_info_list_size"),
      <<Cnt("carrier_freqs_info_list_size", 4, -1),
        Each("carrier_freqs_info_list_size", "carrier_freqs_info_list",
          <<Fill(0, 1), Sub("carrier_freqs", pack_carrier_freqs_geran_ie),
            Flags(<<"cell_resel_prio_present", "p_max_geran_present">>),
            When(On("cell_resel_prio_present"),
              <<Sub("cell_resel_prio", pack_cell_reselection_priority_ie)>>),
            Fld("ncc_permitted", 8), Scl("q_rx_lev_min", 6, 115, 2, 0),
            When(On("p_max_geran_present"), <<Fld("p_max_geran", 6)>>),
            Sub("threshx_high", pack_reselection_threshold_ie),
            Sub("threshx_low", pack_reselection_threshold_ie)>>)>>)>>

unpack_sys_info_block_type_7_ie ==
  <<Flags(<<"ext_ind", "t_resel_geran_sf_present", "carrier_freqs_info_list_opt">>),
    Sub("t_resel_geran", unpack_t_reselection_ie),
    When(On("t_resel_geran_sf_present"),
      <<Sub("t_resel_geran_sf", unpack_speed_state_scale_factors_ie)>>),
    Case(On("carrier_freqs_info_list_opt"),
      <<Cnt("carrier_freqs_info_list_size", 4, -1),
        Each("carrier_freqs_info_list_size", "carrier_freqs_info_list",
          <<Fld("carrier_freqs_info_list_ext_ind", 1),
            Sub("carrier_freqs", unpack_carrier_freqs_geran_ie),
            Flags(<<"cell_resel_prio_present", "p_max_geran_present">>),
            When(On("cell_resel_prio_present"),
              <<Sub("cell_resel_prio", unpack_cell_reselection_priority_ie)>>),
            Fld("ncc_permitted", 8), Scl("q_rx_lev_min", 6, 115, 2, 0),
            When(On("p_max_geran_present"), <<Fld("p_max_geran", 6)>>),
            Sub("threshx_high", unpack_reselection_threshold_ie),
            Sub("threshx_low", unpack_reselection_threshold_ie)>>)>>,
      <<Put("carrier_freqs_info_list_size", 0)>>),
    Ext("ext_ind")>>

pack_sys_info_block_type_8_ie ==
  <<Fill(0, 1),
    Flags(<<"sys_time_info_present", "search_win_size_present", "params_hrpd_present",
      "params_1xrtt_present">>),
    When(On("sys_time_info_present"),
      <<Sub("sys_time_info_cdma2000", pack_system_time_info_cdma2000_ie)>>),
    When(On("search_win_size_present"), <<Fld("search_win_size", 4)>>),
    When(On("params_hrpd_present"),
      <<Fld("cell_resel_params_hrpd_present", 1),
        Sub("pre_reg_info_hrpd", pack_pre_registration_info_hrpd_ie),
        When(On("cell_resel_params_hrpd_present"),
          <<Fld("cell_resel_params_hrpd.t_resel_cdma2000_sf_present", 1),
            Cnt("cell_resel_params_hrpd.band_class_list_size", 5, -1),
            Each("cell_resel_params_hrpd.band_class_list_size", "cell_resel_params_hrpd.band_class_list",
              <<Fill(0, 1), Fld("cell_resel_prio_present", 1),
                Sub("band_class", pack_band_class_cdma2000_ie),
                When(On("cell_resel_prio_present"),
                  <<Sub("cell_resel_prio", pack_cell_reselection_priority_ie)>>),
                Fld("thresh_x_high", 6), Fld("thresh_x_low", 6)>>),
            Cnt("cell_resel_params_hrpd.neigh_cell_list_size", 4, -1),
            Each("cell_resel_params_hrpd.neigh_cell_list_size", "cell_resel_params_hrpd.neigh_cell_list",
              <<Sub("band_class", pack_band_class_cdma2000_ie),
                Cnt("neigh_cells_per_freq_list_size", 4, -1),
                Each("neigh_cells_per_freq_list_size", "neigh_cells_per_freq_list",
                  <<Sub("arfcn", pack_arfcn_value_cdma2000_ie),
                    Cnt("phys_cell_id_list_size", 4, -1),
                    Each("phys_cell_id_list_size", "phys_cell_id_list",
                      <<Sub("", pack_phys_cell_id_cdma2000_ie)>>)>>)>>),
            Sub("cell_resel_params_hrpd.t_resel_cdma2000", pack_t_reselection_ie),
            When(On("cell_resel_params_hrpd.t_resel_cdma2000_sf_present"),
              <<Sub("cell_resel_params_hrpd.t_resel_cdma2000_sf", pack_speed_state_scale_factors_ie)>>)>>)>>),
    When(On("params_1xrtt_present"),
      <<Flags(<<"csfb_reg_param_1xrtt_present", "long_code_state_1xrtt_present",
          "cell_resel_params_1xrtt_present">>),
        When(On("csfb_reg_param_1xrtt_present"),
          <<Sub("csfb_reg_param_1xrtt", pack_csfb_registration_param_1xrtt_ie)>>),
        When(On("long_code_state_1xrtt_present"),
          <<Fld("long_code_state_1xrtt.hi", 32), Fld("long_code_state_1xrtt.lo", 10)>>),
        When(On("cell_resel_params_1xrtt_present"),
          <<Fld("cell_resel_params_1xrtt.t_resel_cdma2000_sf_present", 1),
            Cnt("cell_resel_params_1xrtt.band_class_list_size", 5, -1),
            Each("cell_resel_params_1xrtt.band_class_list_size", "cell_resel_params_1xrtt.band_class_list",
              <<Fill(0, 1), Fld("cell_resel_prio_present", 1),
                Sub("band_class", pack_band_class_cdma2000_ie),
                When(On("cell_resel_prio_present"),
                  <<Sub("cell_resel_prio", pack_cell_reselection_priority_ie)>>),
                Fld("thresh_x_high", 6), Fld("thresh_x_low", 6)>>),
            Cnt("cell_resel_params_1xrtt.neigh_cell_list_size", 4, -1),
            Each("cell_resel_params_1xrtt.neigh_cell_list_size", "cell_resel_params_1xrtt.neigh_cell_list",
              <<Sub("band_class", pack_band_class_cdma2000_ie),
                Cnt("neigh_cells_per_freq_list_size", 4, -1),
                Each("neigh_cells_per_freq_list_size", "neigh_cells_per_freq_list",
                  <<Sub("arfcn", pack_arfcn_value_cdma2000_ie),
                    Cnt("phys_cell_id_list_size", 4, -1),
                    Each("phys_cell_id_list_size", "phys_cell_id_list",
                      <<Sub("", pack_phys_cell_id_cdma2000_ie)>>)>>)>>),
            Sub("cell_resel_params_1xrtt.t_resel_cdma2000", pack_t_reselection_ie),
            When(On("cell_resel_params_1xrtt.t_resel_cdma2000_sf_present"),
              <<Sub("cell_resel_params_1xrtt.t_resel_cdma2000_sf", pack_speed_state_scale_factors_ie)>>)>>)>>)>>

unpack_sys_info_block_type_8_ie ==
  <<Flags(<<"ext_ind", "sys_time_info_present", "search_win_size_present", "params_hrpd_present",
      "params_1xrtt_present">>),
    When(On("sys_time_info_present"),
      <<Sub("sys_time_info_cdma2000", unpack_system_time_info_cdma2000_ie)>>),
    When(On("search_win_size_present"), <<Fld("search_win_size", 4)>>),
    Case(On("params_hrpd_present"),
      <<Fld("cell_resel_params_hrpd_present", 1),
        Sub("pre_reg_info_hrpd", unpack_pre_registration_info_hrpd_ie),
        When(On("cell_resel_params_hrpd_present"),
          <<Fld("cell_resel_params_hrpd.t_resel_cdma2000_sf_present", 1),
            Cnt("cell_resel_params_hrpd.band_class_list_size", 5, -1),
            Each("cell_resel_params_hrpd.band_class_list_size", "cell_resel_params_hrpd.band_class_list",
              <<Flags(<<"ext", "cell_resel_prio_present">>),
                Sub("band_class", unpack_band_class_cdma2000_ie),
                When(On("cell_resel_prio_present"),
                  <<Sub("cell_resel_prio", unpack_cell_reselection_priority_ie)>>),
                Fld("thresh_x_high", 6), Fld("thresh_x_low", 6), Ext("ext")>>),
            Cnt("cell_resel_params_hrpd.neigh_cell_list_size", 4, -1),
            Each("cell_resel_params_hrpd.neigh_cell_list_size", "cell_resel_params_hrpd.neigh_cell_list",
              <<Sub("band_class", unpack_band_class_cdma2000_ie),
                Cnt("neigh_cells_per_freq_list_size", 4, -1),
                Each("neigh_cells_per_freq_list_size", "neigh_cells_per_freq_list",
                  <<Sub("arfcn", unpack_arfcn_value_cdma2000_ie),
                    Cnt("phys_cell_id_list_size", 4, -1),
                    Each("phys_cell_id_list_size", "phys_cell_id_list",
                      <<Sub("", unpack_phys_cell_id_cdma2000_ie)>>)>>)>>),
            Sub("cell_resel_params_hrpd.t_resel_cdma2000", unpack_t_reselection_ie),
            When(On("cell_resel_params_hrpd.t_resel_cdma2000_sf_present"),
              <<Sub("cell_resel_params_hrpd.t_resel_cdma2000_sf", unpack_speed_state_scale_factors_ie)>>)>>)>>,
      <<Put("cell_resel_params_hrpd_present", 0)>>),
    Case(On("params_1xrtt_present"),
      <<Flags(<<"csfb_reg_param_1xrtt_present", "long_code_state_1xrtt_present",
          "cell_resel_params_1xrtt_present">>),
        When(On("csfb_reg_param_1xrtt_present"),
          <<Sub("csfb_reg_param_1xrtt", unpack_csfb_registration_param_1xrtt_ie)>>),
        When(On("long_code_state_1xrtt_present"),
          <<Fld("long_code_state_1xrtt.hi", 32), Fld("long_code_state_1xrtt.lo", 10)>>),
        When(On("cell_resel_params_1xrtt_present"),
          <<Fld("cell_resel_params_1xrtt.t_resel_cdma2000_sf_present", 1),
            Cnt("cell_resel_params_1xrtt.band_class_list_size", 5, -1),
            Each("cell_resel_params_1xrtt.band_class_list_size", "cell_resel_params_1xrtt.band_class_list",
              <<Flags(<<"ext2", "cell_resel_prio_present">>),
                Sub("band_class", unpack_band_class_cdma2000_ie),
                When(On("cell_resel_prio_present"),
                  <<Sub("cell_resel_prio", unpack_cell_reselection_priority_ie)>>),
                Fld("thresh_x_high", 6), Fld("thresh_x_low", 6), Ext("ext2")>>),
            Cnt("cell_resel_params_1xrtt.neigh_cell_list_size", 4, -1),
            Each("cell_resel_params_1xrtt.neigh_cell_list_size", "cell_resel_params_1xrtt.neigh_cell_list",
              <<Sub("band_class", unpack_band_class_cdma2000_ie),
                Cnt("neigh_cells_per_freq_list_size", 4, -1),
                Each("neigh_cells_per_freq_list_size", "neigh_cells_per_freq_list",
                  <<Sub("arfcn", unpack_arfcn_value_cdma2000_ie),
                    Cnt("phys_cell_id_list_size", 4, -1),
                    Each("phys_cell_id_list_size", "phys_cell_id_list",
                      <<Sub("", unpack_phys_cell_id_cdma2000_ie)>>)>>)>>),
            Sub("cell_resel_params_1xrtt.t_resel_cdma2000", unpack_t_reselection_ie),
            When(On("cell_resel_params_1xrtt.t_resel_cdma2000_sf_present"),
              <<Sub("cell_resel_params_1xrtt.t_resel_cdma2000_sf", unpack_speed_state_scale_factors_ie)>>)>>)>>,
      <<Put("csfb_reg_param_1xrtt_present", 0), Put("long_code_state_1xrtt_present", 0),
        Put("cell_resel_params_1xrtt_present", 0)>>),
    Ext("ext_ind")>>

pack_sys_info_block_type_13_ie ==
  <<Fill(0, 1), Fill(0, 1), Cnt("mbsfn_area_info_list_r9_size", 3, -1),
    Each("mbsfn_area_info_list_r9_size", "mbsfn_area_info_list_r9",
      <<Sub("", pack_mbsfn_area_info_ie)>>),
    Sub("mbms_notification_config", pack_mbsfn_notification_config_ie)>>

unpack_sys_info_block_type_13_ie ==
  <<Flags(<<"ext_ind", "non_crit_ext_present">>), Cnt("mbsfn_area_info_list_r9_size", 3, -1),
    Each("mbsfn_area_info_list_r9_size", "mbsfn_area_info_list_r9",
      <<Sub("", unpack_mbsfn_area_info_ie)>>),
    Sub("mbms_notification_config", unpack_mbsfn_notification_config_ie), Ext("ext_ind")>>

============================================================================
